---- MODULE Spec2Model ----
(***************************************************************************)
(* Front end of the Digital Twin Platform demo: the session layer          *)
(* (AuthProvider, cookie and bearer revisions), the application shell      *)
(* (MyAppShellInner and the earlier self-contained MyAppShell), the login  *)
(* page and the user administration page, as one state machine per        *)
(* browser tab.  One action is one task of the browser's event loop: the   *)
(* handler or promise reaction, every state setter it calls, and the       *)
(* React commit (re-render and effects) those setters cause.               *)
(* The operations side (the database bootstrap script and the task         *)
(* runner's recipes) is a second state machine over the database server,   *)
(* the serve rules and the container stack: one action is one command of   *)
(* the running script.                                                     *)
(***************************************************************************)
EXTENDS Integers, Sequences, FiniteSets, TLC

VARIABLES
    variant,        \* which revision of the session layer the page is built from
    path,           \* window.location.pathname of the current document
    phase,          \* "document": React root not rendered yet; "mounted"
    loads,          \* number of documents loaded in this tab so far
    ops,            \* number of user/page operations performed on this document
    token,          \* sessionStorage item "accessToken"
    user,           \* AuthProvider / MyAppShell state `user`
    loaded,         \* AuthProvider / MyAppShell state `loaded`
    net,            \* requests in flight (issued, not settled)
    nextId,         \* identity of the next request / parsed response object
    sent,           \* number of requests issued per endpoint by this document
    navs,           \* assignments to window.location.href made by this document
    childrenShown,  \* whether AppShell.Main holds `children`
    refreshes,      \* settled state of every promise returned by refresh()
    loading,        \* LoginMain state `loading`
    errors,         \* LoginMain form errors
    adminView,      \* what UserAdminMain returns
    tableInst,      \* identity of the mounted UsersTable instance (0: none)
    contents,       \* UsersTable state `contents`
    homeInst,       \* identity of the mounted Home page Main instance (0: none)
    whoami,         \* Home page Main state `whoami`
    roleBadges,     \* Home page Main state `roleBadges` (`roles` in MainApp.tsx)
    userId,         \* the `id` parameter of window.location.search ("" if none)
    updInst,        \* identity of the mounted UpdateUserMain instance (0: none)
    updUser,        \* UpdateUserMain state `user`
    isLoading,      \* UpdateUserMain state `isLoading`
    updEffect,      \* UpdateUserMain's effect is scheduled and has not run yet
    updSettled,     \* a request of the mounted UpdateUserMain instance has settled
    acctInst,       \* identity of the mounted MyAccountMain instance (0: none)
    submitting,     \* MyAccountMain state `submitting`
    modals,         \* the modals opened by this document, in order
    pg,             \* the database server: its roles, databases and grants
    serve,          \* the private-network serve rules
    services,       \* the containers of the stack: name, state, published ports
    run,            \* the script or recipe that is running, and its position
    runLog,         \* the runs that have completed, in order
    vm,             \* the virtual machine setup.sh runs on: ~/.bashrc, PATH, tools
    call,           \* the last call of a helper function: its arguments and result
    reachedBy,      \* what brought the tab to this document: "url", or the origin of
                    \* the window.location.href assignment the browser followed
    last            \* the task that ran last: its handler, request, response, inputs

vars == <<variant, path, phase, loads, ops, token, user, loaded, net, nextId,
          sent, navs, childrenShown, refreshes, loading, errors, adminView,
          tableInst, contents, homeInst, whoami, roleBadges, userId, updInst,
          updUser, isLoading, updEffect, updSettled, acctInst, submitting, modals,
          pg, serve, services, run, runLog, vm, call, reachedBy, last>>

\* The browser tab, and the host the scripts run on.
tabVars == <<variant, path, phase, loads, ops, token, user, loaded, net, nextId,
             sent, navs, childrenShown, refreshes, loading, errors, adminView,
             tableInst, contents, homeInst, whoami, roleBadges, userId, updInst,
             updUser, isLoading, updEffect, updSettled, acctInst, submitting, modals,
             reachedBy, last>>
frontVars == <<tabVars, call>>
opsVars == <<pg, serve, services, run, runLog, vm>>

\* State of the page components other than the login and user administration
\* pages.
pageVars == <<homeInst, whoami, roleBadges, userId, updInst, updUser, isLoading,
              updEffect, updSettled, acctInst, submitting, modals>>

-----------------------------------------------------------------------------
(* Bounds *)

MaxOps == 2
MaxLoads == 2
MaxRuns == 2
MaxArr == 2

-----------------------------------------------------------------------------
(* Strings the code inspects are sequences of characters. *)

StartsWith(s, prefix) ==
    /\ Len(s) >= Len(prefix)
    /\ SubSeq(s, 1, Len(prefix)) = prefix

RECURSIVE TrimStart(_)
TrimStart(s) ==
    IF s # <<>> /\ Head(s) = " " THEN TrimStart(Tail(s)) ELSE s

RECURSIVE TrimEnd(_)
TrimEnd(s) ==
    IF s # <<>> /\ s[Len(s)] = " " THEN TrimEnd(SubSeq(s, 1, Len(s) - 1)) ELSE s

Trim(s) == TrimEnd(TrimStart(s))

LoginPrefix == <<"/", "l", "o", "g", "i", "n">>
LoginPath == <<"/", "l", "o", "g", "i", "n">>
LoginSlashPath == <<"/", "l", "o", "g", "i", "n", "/">>
HomePath == <<"/">>
UserAdminPath == <<"/", "u", "s", "e", "r", "_", "a", "d", "m", "i", "n">>
MePath == <<"/", "m", "e">>
UpdateUserPath == UserAdminPath \o <<"/", "u", "p", "d", "a", "t", "e", "_", "u", "s", "e", "r">>

Variants == {"cookie", "bearer", "legacy"}

\* The entry points a document can be loaded from.  The user administration
\* page calls useAuth() and so exists only on top of an AuthProvider.
Paths(v) ==
    IF v = "legacy" THEN {HomePath, LoginPath, LoginSlashPath}
    ELSE IF v = "bearer" THEN {HomePath, LoginPath, LoginSlashPath, UserAdminPath}
    ELSE {HomePath, LoginPath, LoginSlashPath, UserAdminPath, UpdateUserPath, MePath}

\* Which entry point's component tree is `children` on a path.
PageAt(p) ==
    IF StartsWith(p, LoginPrefix) THEN "login"
    ELSE IF p = UserAdminPath THEN "user_admin"
    ELSE IF p = UpdateUserPath THEN "update_user"
    ELSE IF p = MePath THEN "me"
    ELSE "home"

-----------------------------------------------------------------------------
(* Users *)

\* `user` is null (obj = 0) or the object parsed from response number obj.
NoUser == [obj |-> 0, user_name |-> "", roles |-> <<>>]

Accounts ==
    { [user_name |-> "alice", roles |-> <<"admin">>],
      [user_name |-> "bob",   roles |-> <<"viewer">>],
      [user_name |-> "carol", roles |-> <<"viewer", "users:admin">>],
      [user_name |-> "dave",  roles |-> <<>>] }

UserObj(id, acct) == [obj |-> id, user_name |-> acct.user_name, roles |-> acct.roles]

Range(s) == { s[i] : i \in DOMAIN s }

\* An optional string[] argument: absent (undefined) or an array.
Absent == [def |-> FALSE, arr |-> <<>>]
Arr(a) == [def |-> TRUE, arr |-> a]

\* commonString looking at the first element of arr1 only.
commonString_FirstOnly(arr1, arr2) ==
    IF ~arr1.def \/ ~arr2.def THEN "undefined"
    ELSE IF arr1.arr # <<>> /\ arr1.arr[1] \in Range(arr2.arr) THEN "true" ELSE "false"

\* util.tsx commonString; the result is "undefined", "true" or "false".
commonString(arr1, arr2) ==
    IF ~arr1.def \/ ~arr2.def THEN "undefined"
    ELSE LET set2 == Range(arr2.arr)
         IN  IF \E i \in DOMAIN arr1.arr : arr1.arr[i] \in set2 THEN "true" ELSE "false"

AdminRoles == <<"admin", "users:admin">>

\* No helper function has been called.
NoCall == [fn |-> "none", args |-> <<>>, result |-> "none"]

-----------------------------------------------------------------------------
(* Session storage *)

NoToken == [has |-> FALSE, val |-> <<>>]
Stored(t) == [has |-> TRUE, val |-> t]

\* `!bearerToken` on the result of sessionStorage.getItem
Falsy(t) == ~t.has \/ t.val = <<>>

\* An entry of a headers object, and a RequestInit: absent, or its mode and
\* method ("unset" where the caller left the field out) and its headers.
Header(name, value) == [name |-> name, value |-> value]
NoInit == [def |-> FALSE, mode |-> "unset", method |-> "unset", headers |-> {}]
RequestInit(mode, method, headers) ==
    [def |-> TRUE, mode |-> mode, method |-> method, headers |-> headers]

\* Headers stores a name in lower case.
Lower(name) ==
    CASE name = "Accept" -> "accept"
      [] name = "Authorization" -> "authorization"
      [] name = "X-Trace" -> "x-trace"
      [] OTHER -> name

\* new Headers(init), headers.has(name) and headers.set(name, value)
Headers(given) == { Header(Lower(h.name), h.value) : h \in given }
Has(headers, name) == \E h \in headers : h.name = Lower(name)
Set(headers, name, value) ==
    { h \in headers : h.name # Lower(name) } \cup {Header(Lower(name), value)}

\* authFetch setting the mode whatever the caller chose.
authFetch_ForceMode(init, bearerToken) ==
    LET headers == Headers(init.headers)
        accepted == IF Has(headers, "accept") THEN headers
                    ELSE Set(headers, "accept", <<"application/json">>)
    IN  [mode |-> "cors", method |-> init.method,
         headers |-> IF Falsy(bearerToken) THEN accepted
                     ELSE Set(accepted, "Authorization", <<"Bearer">> \o bearerToken.val)]

\* AuthProvider (bearer revision), authFetch: the init handed to fetch.
authFetch(init, bearerToken) ==
    LET headers == Headers(init.headers)
        accepted == IF Has(headers, "accept") THEN headers
                    ELSE Set(headers, "accept", <<"application/json">>)
    IN  [mode |-> IF init.mode # "unset" THEN init.mode ELSE "cors",
         method |-> init.method,
         headers |-> IF Falsy(bearerToken) THEN accepted
                     ELSE Set(accepted, "Authorization", <<"Bearer">> \o bearerToken.val)]

-----------------------------------------------------------------------------
(* Requests and responses *)

Endpoints == {"me", "logout", "token", "users", "whoami", "user", "patch"}

\* ctx is the `user` the issuing closure captured, where its reaction reads it.
Request(id, kind, initial, inst, body) ==
    [id |-> id, kind |-> kind, initial |-> initial, inst |-> inst, body |-> body,
     ctx |-> NoUser]

\* A request issued by component instance inst whose closure holds user u.
RequestFor(id, kind, inst, u) ==
    [id |-> id, kind |-> kind, initial |-> FALSE, inst |-> inst, body |-> <<>>,
     ctx |-> u]

NoRequest == Request(0, "none", FALSE, 0, <<>>)
NoResponse == [net |-> "none"]

\* Record of the task that ran last; userBefore is `user` when it started.
Task(op, req, resp, args) ==
    [op |-> op, req |-> req, resp |-> resp, args |-> args, userBefore |-> user]

InFlight(kind) == { r \in net : r.kind = kind }

\* Response.ok
Ok(status) == status >= 200 /\ status <= 299

AnyAccount == CHOOSE a \in Accounts : TRUE

\* What the identity endpoint can answer: the user record, a body that is not
\* JSON, an error body, or no answer at all (fetch rejects).
MeResponses ==
    { [net |-> "ok", status |-> 200, parse |-> TRUE, acct |-> a] : a \in Accounts }
    \cup { [net |-> "ok", status |-> 201, parse |-> TRUE, acct |-> AnyAccount] }
    \cup { [net |-> "ok", status |-> s, parse |-> FALSE, acct |-> AnyAccount] :
          s \in {200, 401} }
    \cup { [net |-> "ok", status |-> 401, parse |-> TRUE, acct |-> AnyAccount] }
    \cup { [net |-> "fail", status |-> 0, parse |-> FALSE, acct |-> AnyAccount] }

\* A JSON member as the code tests it: its typeof and its value.
Json(t, v) == [t |-> t, s |-> v]

Token == <<"t", "k">>
Blank == <<" ", " ">>
PaddedToken == <<" ", "t", " ">>

\* What the token endpoint can answer.
TokenResponses ==
    { [net |-> "ok", status |-> 201, parse |-> TRUE,
        access_token |-> Json("string", Token), detail |-> Json("undefined", "")] }
    \cup { [net |-> "ok", status |-> 200, parse |-> TRUE, access_token |-> a,
       detail |-> Json("undefined", "")] :
          a \in { Json("string", Token), Json("string", PaddedToken),
                  Json("string", Blank), Json("string", <<>>),
                  Json("number", <<"4", "2">>), Json("undefined", <<>>) } }
    \cup { [net |-> "ok", status |-> 200, parse |-> TRUE,
            access_token |-> Json("undefined", <<>>),
            detail |-> Json("string", "Account locked")] }
    \cup { [net |-> "ok", status |-> s, parse |-> TRUE,
            access_token |-> Json("undefined", <<>>), detail |-> d] :
          s \in {401},
          d \in { Json("string", "Incorrect username or password"),
                  Json("null", ""), Json("undefined", "") } }
    \cup { [net |-> "ok", status |-> s, parse |-> FALSE,
            access_token |-> Json("undefined", <<>>), detail |-> Json("undefined", "")] :
          s \in {200, 500} }
    \cup { [net |-> "fail", status |-> 0, parse |-> FALSE,
            access_token |-> Json("undefined", <<>>), detail |-> Json("undefined", "")] }

\* What the logout and the user-list endpoints can answer.
PlainResponses ==
    { [net |-> "ok", status |-> s, parse |-> b] : s \in {200, 401}, b \in BOOLEAN }
    \cup { [net |-> "fail", status |-> 0, parse |-> FALSE] }

-----------------------------------------------------------------------------
(* Session layer *)

\* Result of one run of refresh(): whether setUser was called and with what,
\* and how the returned promise settles.
RefreshResult(called, set, promise) == [called |-> called, set |-> set, promise |-> promise]

\* AuthProvider (cookie revision), refresh: the body of the try block ...
refresh_cookie_try(resp, id) ==
    IF resp.net = "fail" THEN [threw |-> TRUE, called |-> FALSE, set |-> NoUser]
    ELSE IF ~Ok(resp.status) THEN [threw |-> FALSE, called |-> TRUE, set |-> NoUser]
    ELSE IF ~resp.parse THEN [threw |-> TRUE, called |-> FALSE, set |-> NoUser]
    ELSE [threw |-> FALSE, called |-> TRUE, set |-> UserObj(id, resp.acct)]

\* refresh keeping the user it holds when the response is not ok.
refresh_cookie_KeepOnError(resp, id) ==
    LET t == refresh_cookie_try(resp, id)
    IN  IF t.threw THEN RefreshResult(TRUE, NoUser, "fulfilled")
        ELSE IF t.set = NoUser THEN RefreshResult(FALSE, NoUser, "fulfilled")
        ELSE RefreshResult(t.called, t.set, "fulfilled")

\* refresh without its catch clause: a throw skips setUser and rejects.
refresh_cookie_NoCatch(resp, id) ==
    LET t == refresh_cookie_try(resp, id)
    IN  IF t.threw THEN RefreshResult(FALSE, NoUser, "rejected")
        ELSE RefreshResult(t.called, t.set, "fulfilled")

\* ... and the whole function with its catch clause.
refresh_cookie(resp, id) ==
    LET t == refresh_cookie_try(resp, id)
    IN  IF t.threw THEN RefreshResult(TRUE, NoUser, "fulfilled")
        ELSE RefreshResult(t.called, t.set, "fulfilled")

\* AuthProvider (bearer revision), refresh, once the token was found truthy.
refresh_bearer_try(resp, id) ==
    IF resp.net = "fail" THEN [threw |-> TRUE, called |-> FALSE, set |-> NoUser]
    ELSE IF Ok(resp.status)
         THEN IF resp.parse
              THEN [threw |-> FALSE, called |-> TRUE, set |-> UserObj(id, resp.acct)]
              ELSE [threw |-> TRUE, called |-> FALSE, set |-> NoUser]
         ELSE [threw |-> FALSE, called |-> TRUE, set |-> NoUser]

refresh_bearer(resp, id) ==
    LET t == refresh_bearer_try(resp, id)
    IN  IF t.threw THEN RefreshResult(TRUE, NoUser, "fulfilled")
        ELSE RefreshResult(t.called, t.set, "fulfilled")

\* `loaded` set only when the check produced a user (.then in place of .finally).
LoadedAfter_OnSuccess(initial, res, l) ==
    IF initial THEN (l \/ (res.called /\ res.set # NoUser)) ELSE l

\* `refresh().finally(() => setLoaded(true))` (`.then(() => setLoaded(true))`
\* after setUser in the earlier shell): `loaded` after an identity check has
\* settled with result res; only the check issued on mount carries the reaction.
LoadedAfter(initial, res, l) ==
    IF initial THEN TRUE ELSE l

\* Earlier MyAppShell, getUser: the body is parsed before the status is
\* looked at, only status 200 counts, and .catch maps every rejection to null.
getUser(resp, id) ==
    IF resp.net = "fail" THEN NoUser
    ELSE IF ~resp.parse THEN NoUser
    ELSE IF resp.status = 200 THEN UserObj(id, resp.acct)
    ELSE NoUser

-----------------------------------------------------------------------------
(* Shell *)

\* The gate without its `loaded` conjunct.
ShowChildren_NoLoaded(u, l, p) == u # NoUser \/ StartsWith(p, LoginPrefix)

\* AppShell.Main: `loaded && (user || pathname.startsWith("/login")) ? children : null`
ShowChildren(u, l, p) == l /\ (u # NoUser \/ StartsWith(p, LoginPrefix))

\* The effect without its `loaded` conjuncts.
RedirectEffect_NoLoaded(u, l, p) ==
    (IF u = NoUser /\ ~StartsWith(p, LoginPrefix) THEN <<LoginPath>> ELSE <<>>)
    \o (IF u # NoUser /\ StartsWith(p, LoginPrefix) THEN <<HomePath>> ELSE <<>>)

\* The effect sending every held user home, whatever the path.
RedirectEffect_NoPathTest(u, l, p) ==
    (IF l /\ u = NoUser /\ ~StartsWith(p, LoginPrefix) THEN <<LoginPath>> ELSE <<>>)
    \o (IF l /\ u # NoUser THEN <<HomePath>> ELSE <<>>)

\* The redirect effect: the targets it assigns to window.location.href, in order.
\* The effect as it would be if the second test did not ask for a held user.
RedirectEffect_NoUserTest(u, l, p) ==
    (IF l /\ u = NoUser /\ ~StartsWith(p, LoginPrefix) THEN <<LoginPath>> ELSE <<>>)
    \o (IF l /\ StartsWith(p, LoginPrefix) THEN <<HomePath>> ELSE <<>>)

RedirectEffect(u, l, p) ==
    (IF l /\ u = NoUser /\ ~StartsWith(p, LoginPrefix) THEN <<LoginPath>> ELSE <<>>)
    \o (IF l /\ u # NoUser /\ StartsWith(p, LoginPrefix) THEN <<HomePath>> ELSE <<>>)

Nav(to, by, tok) == [to |-> to, by |-> by, tok |-> tok]

RECURSIVE Tagged(_, _, _)
Tagged(targets, by, tok) ==
    IF targets = <<>> THEN <<>>
    ELSE <<Nav(Head(targets), by, tok)>> \o Tagged(Tail(targets), by, tok)

\* UserAdminMain testing only that a user is held.
UserAdminMain_NoRoleCheck(u, l) ==
    IF ~l THEN "null"
    ELSE IF u = NoUser THEN "NotAuthorized"
    ELSE "Admin"

\* UserAdminMain
UserAdminMain(u, l) ==
    IF ~l THEN "null"
    ELSE IF u = NoUser \/ commonString(Arr(u.roles), Arr(AdminRoles)) # "true"
         THEN "NotAuthorized"
         ELSE "Admin"

NoError == "<none>"
NoErrors == [userName |-> NoError, password |-> NoError]
\* UsersTable `contents`: null, the red notice, or the table with its rows.
NoContents == [kind |-> "null", rows |-> <<>>]
CouldNotLoad == [kind |-> "Could not load users info.", rows |-> <<>>]

\* Home page Main: a ReactNode held in `whoami`, and in `roleBadges`.
NoNode == [kind |-> "null", text |-> ""]
NotAuthenticatedNotice == [kind |-> "red", text |-> "'whoami' fetch failed, not authenticated?"]
FetchFailedNotice == [kind |-> "red", text |-> "'whoami' fetch failed."]
RawText(t) == [kind |-> "pre", text |-> t]

NoBadges == [kind |-> "null", roles |-> <<>>]

\* util.tsx userBadges; MainApp.tsx maps the roles to badges itself.
userBadges(v, u) ==
    IF v = "cookie" /\ Len(u.roles) = 0 THEN [kind |-> "(None)", roles |-> <<>>]
    ELSE [kind |-> "badges", roles |-> u.roles]

\* What /whoami can answer; parse is whether res.text() fulfils.
WhoamiResponses ==
    { [net |-> "ok", status |-> 200, parse |-> TRUE, text |-> "Hostname: whoami"],
      [net |-> "ok", status |-> 401, parse |-> TRUE, text |-> "Unauthorized"],
      [net |-> "ok", status |-> 200, parse |-> FALSE, text |-> ""],
      [net |-> "fail", status |-> 0, parse |-> FALSE, text |-> ""] }

\* The arguments of the calls of setWhoami that the reactions of Main's
\* effect make for a settled request, in call order: the `.then` reaction
\* calls it with the red notice for a response that is not ok and goes on to
\* the call that awaits res.text(); the `.catch` reaction calls it when fetch
\* or res.text() rejected.
Main_setWhoami(resp) ==
    IF resp.net # "ok" THEN <<FetchFailedNotice>>
    ELSE (IF ~Ok(resp.status) THEN <<NotAuthenticatedNotice>> ELSE <<>>)
         \o (IF resp.parse THEN <<RawText(resp.text)>> ELSE <<FetchFailedNotice>>)

\* What `whoami` and `roleBadges` hold after those reactions, b being the
\* badges held before and u the user the effect's closure captured: the role
\* badges are set by the statement that follows the awaiting call.
Main_then(v, resp, u, b) ==
    LET calls == Main_setWhoami(resp)
    IN  [whoami |-> calls[Len(calls)],
         roleBadges |-> IF resp.net = "ok" /\ resp.parse THEN userBadges(v, u) ELSE b]

\* Update-user page: what the `id` search parameter can be.
UserIds == {"", "42"}

\* What GET /auth/users/{id} can answer.
UserResponses ==
    { [net |-> "ok", status |-> 200, parse |-> TRUE],
      [net |-> "ok", status |-> 404, parse |-> TRUE],
      [net |-> "ok", status |-> 200, parse |-> FALSE],
      [net |-> "fail", status |-> 0, parse |-> FALSE] }

\* UpdateUserMain state `user`: null or the fetched record.
NoRecord == [has |-> FALSE, user_id |-> ""]
Fetched(id) == [has |-> TRUE, user_id |-> id]

\* What UpdateUserMain returns.
UpdateUserMain(user_id, ld, u) ==
    IF user_id = "" THEN "No user specified."
    ELSE IF ld THEN "Loading user..."
    ELSE IF ~u.has THEN "Could not find the specified user."
    ELSE "details"

\* The value the reactions to the settled request pass to setUser.
UpdateUserMain_then(resp, id) ==
    IF resp.net # "ok" THEN NoRecord
    ELSE IF ~Ok(resp.status) THEN NoRecord
    ELSE IF ~resp.parse THEN NoRecord
    ELSE Fetched(id)

\* My Account page: what PATCH /auth/users/me can answer; detail is the
\* `detail` member of the parsed body.
PatchResponses ==
    { [net |-> "ok", status |-> 200, parse |-> TRUE, detail |-> Json("undefined", "")],
      [net |-> "ok", status |-> 204, parse |-> FALSE, detail |-> Json("undefined", "")],
      [net |-> "ok", status |-> 400, parse |-> TRUE,
       detail |-> Json("string", "Incorrect password")],
      [net |-> "ok", status |-> 500, parse |-> FALSE, detail |-> Json("undefined", "")],
      [net |-> "fail", status |-> 0, parse |-> FALSE, detail |-> Json("undefined", "")] }

\* What can stand in the three password fields.
PasswordValues == {<<>>, <<"p">>}

\* useForm validate rules of MyAccountMain: whether no rule reports an error.
MyAccount_valid(oldPassword, newPassword, confirmNewPassword) ==
    /\ ~(Len(oldPassword) < 1)
    /\ ~(Len(newPassword) < 1)
    /\ ~(confirmNewPassword # newPassword)

\* `${error}` of what fetch, or response.json(), rejects with.
FetchError == Json("string", "TypeError: Failed to fetch")
JsonError == Json("string", "SyntaxError: Unexpected end of JSON input")

okayModal(req) == [title |-> "Success!", text |-> Json("string", "Password updated."), req |-> req]
errorModal(errMsg, req) == [title |-> "Error!", text |-> errMsg, req |-> req]

\* The modal the reactions of changePassword open for request number req: the
\* `.then` reaction parses the body before it looks at response.ok.
changePassword_then(resp, req) ==
    IF resp.net # "ok" THEN errorModal(FetchError, req)
    ELSE IF ~resp.parse THEN errorModal(JsonError, req)
    ELSE IF Ok(resp.status) THEN okayModal(req)
    ELSE errorModal(resp.detail, req)

\* No effect is waiting to run: React runs the effects of a commit before it
\* handles the next event or renders again.
Ready == phase = "mounted" /\ ~updEffect

\* One React commit after the state setters of a task have run: the provider
\* and the shell re-render with user u2 and loaded l2, the redirect effect
\* re-runs if one of its dependencies [user, loaded] changed, `children` are
\* mounted, kept or unmounted, and a newly mounted UsersTable runs its effect.
\* navs1, net1, sent1, id1, loading1, errors1, contents1 are the values the
\* task left before the commit; tok is the session storage item at commit time.
Commit(u2, l2, tok, navs1, net1, sent1, id1, loading1, errors1, contents1) ==
    LET shown == ShowChildren(u2, l2, path)
        rerun == u2 # user \/ l2 # loaded
        page  == PageAt(path)
        view  == IF shown /\ page = "user_admin" THEN UserAdminMain(u2, l2)
                 ELSE "unmounted"
        mountTable == view = "Admin" /\ adminView # "Admin"
        loginKept  == shown /\ childrenShown /\ page = "login"
        homeShown  == shown /\ page = "home" /\ variant # "legacy"
        mountHome  == homeShown /\ homeInst = 0
        fetchHome  == homeShown /\ (mountHome \/ rerun) /\ l2 /\ u2 # NoUser
        inst2      == IF ~homeShown THEN 0 ELSE IF mountHome THEN id1 ELSE homeInst
        updShown   == shown /\ page = "update_user"
        mountUpd   == updShown /\ updInst = 0
        acctShown  == shown /\ page = "me"
        mountAcct  == acctShown /\ acctInst = 0
    IN  /\ user' = u2
        /\ loaded' = l2
        /\ childrenShown' = shown
        /\ navs' = navs1 \o (IF rerun THEN Tagged(RedirectEffect(u2, l2, path), "effect", tok)
                             ELSE <<>>)
        /\ adminView' = view
        /\ tableInst' = IF view # "Admin" THEN 0
                        ELSE IF mountTable THEN id1 ELSE tableInst
        /\ contents' = IF view # "Admin" \/ mountTable THEN NoContents ELSE contents1
        /\ homeInst' = inst2
        /\ whoami' = IF ~homeShown \/ mountHome THEN NoNode ELSE whoami
        /\ roleBadges' = IF ~homeShown \/ mountHome THEN NoBadges ELSE roleBadges
        /\ net' = IF mountTable
                  THEN net1 \cup {Request(id1, "users", FALSE, id1, <<>>)}
                  ELSE IF fetchHome
                  THEN net1 \cup {RequestFor(id1, "whoami", inst2, u2)}
                  ELSE net1
        /\ sent' = IF mountTable THEN [sent1 EXCEPT !["users"] = @ + 1]
                   ELSE IF fetchHome THEN [sent1 EXCEPT !["whoami"] = @ + 1]
                   ELSE sent1
        /\ nextId' = IF mountTable \/ fetchHome \/ mountUpd \/ mountAcct THEN id1 + 1
                     ELSE id1
        /\ acctInst' = IF ~acctShown THEN 0 ELSE IF mountAcct THEN id1 ELSE acctInst
        /\ submitting' = IF ~acctShown \/ mountAcct THEN FALSE ELSE submitting
        /\ modals' = modals
        /\ updInst' = IF ~updShown THEN 0 ELSE IF mountUpd THEN id1 ELSE updInst
        /\ updUser' = IF ~updShown \/ mountUpd THEN NoRecord ELSE updUser
        /\ isLoading' = IF ~updShown \/ mountUpd THEN FALSE ELSE isLoading
        /\ updEffect' = mountUpd
        /\ updSettled' = IF ~updShown \/ mountUpd THEN FALSE ELSE updSettled
        /\ userId' = userId
        /\ loading' = IF loginKept THEN loading1 ELSE FALSE
        /\ errors' = IF loginKept THEN errors1 ELSE NoErrors

-----------------------------------------------------------------------------
(* Login page *)

\* What the user can have typed into a field.
FieldValues == {<<>>, <<"u", "&">>}

\* useForm validate rules
validate_userName(value) == IF Len(value) < 1 THEN "Please enter a username" ELSE NoError
\* A password rule that accepts every value.
validate_password_Lenient(value) == NoError

validate_password(value) == IF Len(value) < 1 THEN "Please enter a password" ELSE NoError

\* The body template literal of the token request.
TokenBody(userName, rawPassword) ==
    <<"g", "r", "a", "n", "t", "_", "t", "y", "p", "e", "=", "p", "a", "s", "s", "w", "o", "r", "d">>
    \o <<"&", "u", "s", "e", "r", "n", "a", "m", "e", "=">>
    \o userName
    \o <<"&", "p", "a", "s", "s", "w", "o", "r", "d", "=">>
    \o rawPassword

UnknownError == "An unknown error occured."
ThrownError == "TypeError: Failed to fetch"

\* doLogin accepting every string as a token, blank ones included.
doLogin_AnyToken(resp, errs, tok, nv, ld) ==
    LET isNull == resp.net = "fail" \/ ~resp.parse
        errs0  == IF isNull THEN [password |-> ThrownError, userName |-> NoError] ELSE errs
        status == IF isNull THEN 0 ELSE resp.status
        accessToken == resp.access_token
        detail == IF isNull THEN Json("undefined", "") ELSE resp.detail
    IN  IF status = 200
        THEN IF accessToken.t = "string"
             THEN LET tok1 == Stored(accessToken.s)
                  IN  [errors |-> errs0, token |-> tok1,
                       navs |-> Append(nv, Nav(HomePath, "login", tok1)),
                       loading |-> FALSE]
             ELSE [errors |-> [password |-> UnknownError, userName |-> NoError],
                   token |-> tok, navs |-> nv, loading |-> ld]
        ELSE [errors |-> [password |-> IF detail.t \in {"undefined", "null"}
                                       THEN UnknownError ELSE detail.s,
                          userName |-> NoError],
              token |-> tok, navs |-> nv, loading |-> FALSE]

\* doLogin after the await: fetchResult is null when fetch or response.json()
\* rejected, and then .catch has already put the error text on the password
\* field.  Yields the form errors, the session storage item, the navigations
\* and `loading` the function leaves, given the values it found.
doLogin(resp, errs, tok, nv, ld) ==
    LET isNull == resp.net = "fail" \/ ~resp.parse
        errs0  == IF isNull THEN [password |-> ThrownError, userName |-> NoError] ELSE errs
        status == IF isNull THEN 0 ELSE resp.status
        accessToken == resp.access_token
        detail == IF isNull THEN Json("undefined", "") ELSE resp.detail
    IN  IF status = 200
        THEN IF accessToken.t = "string" /\ Len(Trim(accessToken.s)) > 0
             THEN LET tok1 == Stored(accessToken.s)
                  IN  [errors |-> errs0, token |-> tok1,
                       navs |-> Append(nv, Nav(HomePath, "login", tok1)),
                       loading |-> FALSE]
             ELSE [errors |-> [password |-> UnknownError, userName |-> NoError],
                   token |-> tok, navs |-> nv, loading |-> ld]
        ELSE [errors |-> [password |-> IF detail.t \in {"undefined", "null"}
                                       THEN UnknownError ELSE detail.s,
                          userName |-> NoError],
              token |-> tok, navs |-> nv, loading |-> FALSE]

-----------------------------------------------------------------------------
(* Initial state: a document has been loaded, React has not rendered yet. *)

-----------------------------------------------------------------------------
(* User administration page: the users table *)

\* Letters of user names in the order the default collation gives them.
Alphabet == <<"a", "b", "c">>

Rank(ch) == CHOOSE i \in DOMAIN Alphabet : Alphabet[i] = ch

\* String.prototype.localeCompare on names over Alphabet: negative, zero or
\* positive as a sorts before, equal to or after b.
RECURSIVE localeCompare(_, _)
localeCompare(a, b) ==
    IF a = <<>> THEN (IF b = <<>> THEN 0 ELSE -1)
    ELSE IF b = <<>> THEN 1
    ELSE IF Rank(Head(a)) < Rank(Head(b)) THEN -1
    ELSE IF Rank(Head(a)) > Rank(Head(b)) THEN 1
    ELSE localeCompare(Tail(a), Tail(b))

\* The users the server can list.
ListedUsers ==
    { [user_id |-> 1, user_name |-> <<"b">>],
      [user_id |-> 2, user_name |-> <<"a", "b">>],
      [user_id |-> 3, user_name |-> <<"a">>] }

MaxListed == 3

\* Every order in which the server can list some of the users.
UserLists ==
    { l \in UNION { [1..n -> ListedUsers] : n \in 0..MaxListed } :
        \A i, j \in DOMAIN l : i # j => l[i] # l[j] }

\* What GET /auth/users can answer; hasUsers is whether the parsed body has
\* a `users` array.
UsersResponses ==
    { [net |-> "ok", status |-> 200, parse |-> TRUE, hasUsers |-> TRUE, users |-> l] :
        l \in UserLists }
    \cup { [net |-> "ok", status |-> 200, parse |-> TRUE, hasUsers |-> FALSE, users |-> <<>>],
           [net |-> "ok", status |-> 200, parse |-> FALSE, hasUsers |-> FALSE, users |-> <<>>],
           [net |-> "ok", status |-> 401, parse |-> TRUE, hasUsers |-> FALSE, users |-> <<>>],
           [net |-> "fail", status |-> 0, parse |-> FALSE, hasUsers |-> FALSE, users |-> <<>>] }

\* Array.prototype.sort is stable: x goes behind every element that does not
\* compare greater than it.
RECURSIVE InsertUser(_, _)
InsertUser(sorted, x) ==
    IF sorted = <<>> THEN <<x>>
    ELSE IF localeCompare(Head(sorted).user_name, x.user_name) <= 0
         THEN <<Head(sorted)>> \o InsertUser(Tail(sorted), x)
         ELSE <<x>> \o sorted

RECURSIVE SortFrom(_, _)
SortFrom(sorted, rest) ==
    IF rest = <<>> THEN sorted ELSE SortFrom(InsertUser(sorted, Head(rest)), Tail(rest))

users_sort_Unsorted(users) == users

\* users.sort((userA, userB) => userA.user_name.localeCompare(userB.user_name))
users_sort(users) ==
    SortFrom(<<>>, users)

userTableRow(u) == [user_id |-> u.user_id, user_name |-> u.user_name]

\* users.map(userTableRow, users) inside the table body
userTableContents(users) ==
    [kind |-> "table", rows |-> [i \in DOMAIN users |-> userTableRow(users[i])]]

\* The reaction of UsersTable's effect to the settled request.
UsersTable_then(resp) ==
    IF resp.net # "ok" THEN CouldNotLoad
    ELSE IF ~Ok(resp.status) THEN CouldNotLoad
    ELSE IF ~resp.parse \/ ~resp.hasUsers THEN CouldNotLoad
    ELSE userTableContents(users_sort(resp.users))

-----------------------------------------------------------------------------
(* Operations: scripts, and the commands they issue *)

\* One command line of a script: the tool, its operation and operands, and
\* whether the line ends in `|| true`.
Cmd(tool, op, a, b, c, tolerate) ==
    [tool |-> tool, op |-> op, a |-> a, b |-> b, c |-> c, tolerate |-> tolerate]

\* The variables a script reads from the environment file it sources.
NoEnv == [user |-> "", password |-> "", db |-> ""]
Envs == [user : {"dtp", "twin"}, password : {"p1", "p2"}, db : {"dtp"}]

\* No script is running.
Idle == [prog |-> "idle", arg |-> <<>>, env |-> NoEnv, script |-> <<>>, pc |-> 0,
         issued |-> <<>>, results |-> <<>>, status |-> 0, out |-> {}, before |-> {},
         port |-> <<>>, echoed |-> <<>>]

\* A script starts: nothing issued yet, the first line is next; before is
\* the set of serve rules it finds, port the shell variable PORT, echoed what
\* echo has printed.
Started(prog, arg, env, script) ==
    [prog |-> prog, arg |-> arg, env |-> env, script |-> script, pc |-> 1,
     issued |-> <<>>, results |-> <<>>, status |-> 0, out |-> {}, before |-> serve,
     port |-> <<>>, echoed |-> <<>>]

\* $? after a line: `|| true` turns a failure into success.
Status(ok, tolerate) == IF ok \/ tolerate THEN 0 ELSE 1

\* bash as under `set -e`: a line that fails ends the script.
NextLine_Errexit(pc, status, len) == IF status = 0 THEN pc + 1 ELSE len + 1

\* bash runs the next line whatever the status of this one: the scripts and
\* the recipes' shebang bodies do not set errexit.
NextLine(pc, status, len) ==
    pc + 1

\* "$PORT" in a command line, and the line after the shell has expanded it.
PortVar == <<"$", "P", "O", "R", "T">>

Expand(cmd, port) ==
    IF cmd.tool # "tailscale" THEN cmd
    ELSE [cmd EXCEPT !.b = IF @ = PortVar THEN port ELSE @,
                     !.c = IF @ = PortVar THEN port ELSE @]

\* The running script after its current line gave result res ("ok", "error"
\* or "unreachable").
Stepped(r, res) ==
    LET cmd == Expand(r.script[r.pc], r.port)
        st  == Status(res = "ok", cmd.tolerate)
    IN  [r EXCEPT !.issued = Append(@, cmd), !.results = Append(@, res),
                  !.status = st, !.pc = NextLine(r.pc, st, Len(r.script))]

\* The record of a completed run; the exit status is that of the last line run.
Completed(r) ==
    [prog |-> r.prog, arg |-> r.arg, env |-> r.env, issued |-> r.issued,
     results |-> r.results, exit |-> r.status, out |-> r.out, before |-> r.before,
     port |-> r.port, echoed |-> r.echoed]

-----------------------------------------------------------------------------
(* Database bootstrap script *)

NoPassword == "<null>"
Superuser == "postgres"

\* The script for the values of PG_USER, PG_USER_PASSWORD and PG_DB
\* (USER_NAME, USER_PASSWORD and USER_DB in the earlier revision).
create_dtp_NoAlter(env) ==
    << Cmd("psql", "CREATE USER", env.user, "", "", TRUE),
       Cmd("psql", "CREATE DATABASE", env.db, env.user, "", TRUE),
       Cmd("psql", "GRANT ALL ON DATABASE", env.db, env.user, "", FALSE) >>

create_dtp(env) ==
    << Cmd("psql", "CREATE USER", env.user, "", "", TRUE),
       Cmd("psql", "ALTER USER", env.user, env.password, "", FALSE),
       Cmd("psql", "CREATE DATABASE", env.db, env.user, "", TRUE),
       Cmd("psql", "GRANT ALL ON DATABASE", env.db, env.user, "", FALSE) >>

Server(roles, dbs, grants) == [roles |-> roles, dbs |-> dbs, grants |-> grants]
Role(n, p) == [name |-> n, password |-> p]
Database(n, o) == [name |-> n, owner |-> o]
Grant(d, r) == [db |-> d, role |-> r]

FreshServer == Server({}, {}, {})

\* What the server can hold before a run: nothing, a role only, the database
\* created by hand or for another role, or what an earlier run left.
PriorServers ==
    { FreshServer,
      Server({Role("dtp", "p0")}, {}, {}),
      Server({}, {Database("dtp", Superuser)}, {}),
      Server({Role("twin", "p0")}, {Database("dtp", "twin")}, {Grant("dtp", "twin")}),
      Server({Role("dtp", "p0")}, {Database("dtp", "dtp")}, {Grant("dtp", "dtp")}) }

RoleExists(srv, n) == n = Superuser \/ \E r \in srv.roles : r.name = n
DatabaseExists(srv, d) == \E x \in srv.dbs : x.name = d

\* What psql -c does with one statement: whether it succeeded, and the
\* server afterwards.  A failed statement changes nothing.
Psql(srv, cmd) ==
    CASE cmd.op = "CREATE USER" ->
           IF RoleExists(srv, cmd.a) THEN [ok |-> FALSE, srv |-> srv]
           ELSE [ok |-> TRUE,
                 srv |-> [srv EXCEPT !.roles = @ \cup {Role(cmd.a, NoPassword)}]]
      [] cmd.op = "ALTER USER" ->
           IF ~RoleExists(srv, cmd.a) THEN [ok |-> FALSE, srv |-> srv]
           ELSE [ok |-> TRUE,
                 srv |-> [srv EXCEPT !.roles =
                            { IF r.name = cmd.a THEN Role(r.name, cmd.b) ELSE r : r \in @ }]]
      [] cmd.op = "CREATE DATABASE" ->
           IF DatabaseExists(srv, cmd.a) \/ ~RoleExists(srv, cmd.b)
           THEN [ok |-> FALSE, srv |-> srv]
           ELSE [ok |-> TRUE,
                 srv |-> [srv EXCEPT !.dbs = @ \cup {Database(cmd.a, cmd.b)}]]
      [] cmd.op = "GRANT ALL ON DATABASE" ->
           IF ~DatabaseExists(srv, cmd.a) \/ ~RoleExists(srv, cmd.b)
           THEN [ok |-> FALSE, srv |-> srv]
           ELSE [ok |-> TRUE,
                 srv |-> [srv EXCEPT !.grants = @ \cup {Grant(cmd.a, cmd.b)}]]

-----------------------------------------------------------------------------
(* Virtual machine setup script *)

\* The blocks setup.sh appends to ~/.bashrc, and what the file holds before.
PathGuard == "# Add ~/.local/bin to PATH if not already in PATH"
PurelineBlock == "# Set up pureline"
DistroBashrc == "# ~/.bashrc: executed by bash(1) for non-login shells."

\* The machine: the blocks of ~/.bashrc in order, whether ~/.local/bin is on
\* the PATH of the operator's session, and which of ~/pureline and
\* ~/.local/bin/pureline exist.
Vm(bashrc, onPath, files) == [bashrc |-> bashrc, onPath |-> onPath, files |-> files]

FreshVm == Vm(<<DistroBashrc>>, FALSE, {})

\* The steps of setup.sh, in order.
setup_sh ==
    LET steps == <<"path", "pureline", "pureline bashrc", "uv", "sources",
                   "packages", "docker", "bun">>
    IN  [i \in DOMAIN steps |-> Cmd("setup", steps[i], "", "", "", FALSE)]

\* The running script after its current step succeeded or failed: under
\* `set -euo pipefail` a step that fails ends the script.
SetupStepped(r, ok) ==
    [r EXCEPT !.issued = Append(@, r.script[r.pc]),
              !.results = Append(@, IF ok THEN "ok" ELSE "error"),
              !.status = Status(ok, FALSE),
              !.pc = IF ok THEN r.pc + 1 ELSE Len(r.script) + 1]

-----------------------------------------------------------------------------
(* Task runner recipes *)

\* Words of the recipes, as the characters xargs and yq see.
P80 == <<"8", "0">>
P443 == <<"4", "4", "3">>
P1883 == <<"1", "8", "8", "3">>
P5000 == <<"5", "0", "0", "0">>
P5001 == <<"5", "0", "0", "1">>
P8080 == <<"8", "0", "8", "0">>
TcpLocalhost1883 == <<"t", "c", "p", ":", "/", "/", "l", "o", "c", "a", "l", "h", "o", "s", "t", ":", "1", "8", "8", "3">>
DotEnv == <<".", "e", "n", "v">>
AllServices == <<>>

RECURSIVE Join(_, _)
Join(words, sep) ==
    IF words = <<>> THEN <<>>
    ELSE IF Len(words) = 1 THEN words[1]
    ELSE words[1] \o sep \o Join(Tail(words), sep)

\* The items of text between the occurrences of sep; no text is one empty item.
RECURSIVE Split(_, _, _)
Split(text, sep, item) ==
    IF text = <<>> THEN <<item>>
    ELSE IF StartsWith(text, sep)
         THEN <<item>> \o Split(SubSeq(text, Len(sep) + 1, Len(text)), sep, <<>>)
         ELSE Split(Tail(text), sep, Append(item, Head(text)))

echo_newline(words) == Join(words, <<" ">>) \o <<"\n">>

\* `echo -n words`: the words joined by one space, no trailing newline.
echo_n(words) ==
    Join(words, <<" ">>)

\* `xargs -d' '`: the input cut at every delimiter; input that ends in the
\* delimiter has no empty last item.
xargs_d(input, delim) ==
    LET items == Split(input, delim, <<>>)
    IN  IF items[Len(items)] = <<>> THEN SubSeq(items, 1, Len(items) - 1) ELSE items

\* `tailscale serve --bg --https=port target` and `--tcp=port target`
TailscaleServe(proto, port, target) == Cmd("tailscale", "serve", proto, port, target, FALSE)
TailscaleReset == Cmd("tailscale", "reset", "", <<>>, <<>>, FALSE)
ComposeUp(service) == Cmd("compose", "up", DotEnv, service, <<"-", "d">>, FALSE)
ComposeDown(service) == Cmd("compose", "down", DotEnv, service, <<>>, FALSE)
ComposePsYq == Cmd("compose", "ps | yq", "", <<>>, <<>>, FALSE)

\* The recipe tailscale-up: xargs -I{} runs one command per item.
tailscale_up ==
    LET items == xargs_d(echo_n(<<P5000, P5001>>), <<" ">>)
    IN  <<TailscaleServe("https", P443, P80)>>
        \o [i \in DOMAIN items |-> TailscaleServe("https", items[i], items[i])]
        \o <<TailscaleServe("tcp", P1883, TcpLocalhost1883)>>

docker_up_NoReset == <<ComposeUp(AllServices)>> \o tailscale_up

\* The recipe docker-up; `just tailscale-up` runs that recipe to its end.
docker_up ==
    <<TailscaleReset, ComposeUp(AllServices)>> \o tailscale_up

\* The recipe docker-restart for $service.
docker_restart(service) ==
    <<ComposeDown(service), TailscaleReset, ComposeUp(service)>> \o tailscale_up

docker_ports == <<ComposePsYq>>

\* `tailscale serve --http="$PORT" off` and `--https="$PORT" off`
TailscaleOff(proto, port) == Cmd("tailscale", "off", proto, port, <<>>, FALSE)

Cancelled == "Cancelled."

\* The head without the test of $PORT.
PromptPort_NoTest ==
    << Cmd("gum", "input", "", <<>>, <<>>, FALSE) >>

\* The head of the serve and unserve recipes:
\*   PORT=${port:-$(gum input --prompt="Port: ")}
\*   if [ -z "$PORT" ]; then echo 'Cancelled.'; exit 1; fi
PromptPort ==
    << Cmd("gum", "input", "", <<>>, <<>>, FALSE),
       Cmd("if", "-z", "", <<>>, <<>>, FALSE) >>

\* The recipes that take $port; tailscale-unserve of the later task file is
\* the earlier tailscale-unserve-https.
PortRecipes ==
    {"tailscale-serve", "tailscale-unserve", "tailscale-serve-https",
     "tailscale-unserve-https"}

\* What the operator passes as $port (nothing, or a port), and what the
\* prompt yields (nothing, or a port).
PortArgs == {<<>>, P8080}
PromptAnswers == {<<>>, P443}

Recipes == {"tailscale-up", "docker-up", "docker-restart", "docker-ports"}

\* The body `just name arg` runs.
Recipe(name, arg) ==
    CASE name = "tailscale-up" -> tailscale_up
      [] name = "docker-up" -> docker_up
      [] name = "docker-restart" -> docker_restart(arg)
      [] name = "docker-ports" -> docker_ports
      [] name = "tailscale-serve" ->
           PromptPort \o <<TailscaleServe("http", PortVar, PortVar)>>
      [] name = "tailscale-unserve" ->
           PromptPort \o <<TailscaleOff("http", PortVar)>>
      [] name = "tailscale-serve-https" ->
           PromptPort \o <<TailscaleServe("https", PortVar, PortVar)>>
      [] name = "tailscale-unserve-https" ->
           PromptPort \o <<TailscaleOff("https", PortVar)>>

\* A serve rule: what is listened on, and where it is relayed to.
Rule(proto, port, target) == [proto |-> proto, port |-> port, target |-> target]

\* What the tailscale command does to the serve rules: reset drops them all,
\* off drops the rule of that port and protocol, serve replaces the rule of
\* that port.
Tailscale(rules, cmd) ==
    IF cmd.op = "reset" THEN {}
    ELSE IF cmd.op = "off" THEN { r \in rules : ~(r.port = cmd.b /\ r.proto = cmd.a) }
    ELSE { r \in rules : r.port # cmd.b } \cup {Rule(cmd.a, cmd.b, cmd.c)}

\* Serve rules an operator can have added by hand before a recipe runs.
AdHocRules ==
    { Rule("https", P8080, P8080), Rule("https", P443, P8080) }

\* Published ports as `docker compose ps` prints them.
Wildcard80 == <<"0", ".", "0", ".", "0", ".", "0", ":", "8", "0", "-", ">", "8", "0", "/", "t", "c", "p">>
Wildcard6 == <<"[", ":", ":", "]", ":", "8", "0", "-", ">", "8", "0", "/", "t", "c", "p">>
Loopback81 == <<"1", "2", "7", ".", "0", ".", "0", ".", "1", ":", "8", "1", "-", ">", "8", "1", "/", "t", "c", "p">>
CommaSpace == <<",", " ">>

Traefik == <<"t", "r", "a", "e", "f", "i", "k">>
Postgres == <<"p", "o", "s", "t", "g", "r", "e", "s">>
ServiceNames == {Traefik, Postgres}

\* The arguments a recipe is run with.
Args(name) ==
    IF name = "docker-restart" THEN ServiceNames
    ELSE IF name \in PortRecipes THEN PortArgs
    ELSE {AllServices}

\* The Ports member of a container: its published ports joined by ", ".
PortsTexts ==
    { Join(l, CommaSpace) : l \in { <<>>, <<Wildcard80>>, <<Loopback81>>,
                                   <<Wildcard80, Wildcard6>>, <<Loopback81, Wildcard80>> } }

Container(name, running, ports) == [Name |-> name, running |-> running, Ports |-> ports]

\* What docker compose does to the containers; a failed command changes nothing.
Compose(stack, cmd) ==
    { IF cmd.b = AllServices \/ cmd.b = c.Name
      THEN Container(c.Name, cmd.op = "up", c.Ports)
      ELSE c : c \in stack }

yq_test_Always(text) == TRUE

\* yq test("0.0.0.0"): the text contains a match of the regular expression,
\* in which a dot stands for any character.
yq_test(text) ==
    \E i \in 1..(Len(text) - 6) :
        text[i] = "0" /\ text[i + 2] = "0" /\ text[i + 4] = "0" /\ text[i + 6] = "0"

\* {.Name: (.Ports | split(", ") | filter(test("0.0.0.0")))} for one container
yq_entry(c) ==
    [name |-> c.Name, ports |-> SelectSeq(Split(c.Ports, CommaSpace, <<>>), yq_test)]

\* `docker compose ps --format json` lists the running containers; yq maps
\* each to its entry and merges the entries into one mapping.
yq_ports(stack) == { yq_entry(c) : c \in { x \in stack : x.running } }

InitialTokens == {NoToken, Stored(<<"t">>)}

FrontInit ==
    /\ variant \in Variants
    /\ path \in Paths(variant)
    /\ phase = "document"
    /\ loads = 1
    /\ reachedBy = "url"
    /\ ops = 0
    /\ token \in InitialTokens
    /\ user = NoUser
    /\ loaded = FALSE
    /\ net = {}
    /\ nextId = 1
    /\ sent = [e \in Endpoints |-> 0]
    /\ navs = <<>>
    /\ childrenShown = FALSE
    /\ refreshes = {}
    /\ loading = FALSE
    /\ errors = NoErrors
    /\ adminView = "unmounted"
    /\ tableInst = 0
    /\ contents = NoContents
    /\ homeInst = 0
    /\ whoami = NoNode
    /\ roleBadges = NoBadges
    /\ userId \in (IF path = UpdateUserPath THEN UserIds ELSE {""})
    /\ updInst = 0
    /\ updUser = NoRecord
    /\ isLoading = FALSE
    /\ updEffect = FALSE
    /\ updSettled = FALSE
    /\ acctInst = 0
    /\ submitting = FALSE
    /\ modals = <<>>
    /\ call = NoCall
    /\ last = [op |-> "load", req |-> NoRequest, resp |-> NoResponse, args |-> <<>>,
               userBefore |-> NoUser]

\* The browser tab on its own: no script runs on the host.
Init ==
    /\ FrontInit
    /\ pg = FreshServer
    /\ serve = {}
    /\ services = {}
    /\ run = Idle
    /\ runLog = <<>>
    /\ vm = FreshVm

-----------------------------------------------------------------------------
(* Promise chains of the call sites *)

\* The reactions attached to the promise fetch returns, in order, at the
\* call site of each endpoint: refresh awaits inside try/catch and its caller
\* adds .finally (the earlier shell: getUser's .then/.catch, then two .then);
\* logout attaches .finally alone; the token, user list, whoami and password
\* requests .then and .catch; the user record .then, .then, .catch, .finally.
Reactions(v, kind) ==
    CASE kind = "me" ->
           IF v = "legacy" THEN <<"then", "catch", "then", "then">>
           ELSE <<"then", "catch", "finally">>
      [] kind = "logout" -> <<"finally">>
      [] kind = "user" -> <<"then", "then", "catch", "finally">>
      [] OTHER -> <<"then", "catch">>

\* Whether the first reaction throws when fetch fulfilled with resp: it reads
\* a body that cannot be read, or sorts a `users` member that is not there.
ThenThrows(v, kind, resp) ==
    \/ /\ kind \in {"token", "patch", "whoami"} \/ v = "legacy" \/ Ok(resp.status)
       /\ ~resp.parse
    \/ kind = "users" /\ Ok(resp.status) /\ resp.parse /\ ~resp.hasUsers

\* How a chain of reactions ends for a promise in state `state`: .then runs
\* on fulfilment only (and rejects if its handler throws), .catch turns a
\* rejection into a fulfilment, .finally hands the state on.
RECURSIVE ChainEnd(_, _, _)
ChainEnd(reactions, state, throws) ==
    IF reactions = <<>> THEN state
    ELSE LET r == Head(reactions)
             next == IF r = "then"
                     THEN (IF state = "fulfilled" /\ ~throws THEN "fulfilled" ELSE "rejected")
                     ELSE IF r = "catch" THEN "fulfilled"
                     ELSE state
         IN  ChainEnd(Tail(reactions), next, FALSE)

-----------------------------------------------------------------------------
(* Actions *)

\* createRoot(...).render(...): first render, then the mount effects.  The
\* redirect effect runs with loaded = false; the provider's effect calls
\* refresh() (getUser() in the earlier shell), which issues the identity
\* request, except that the bearer revision without a token sets the user to
\* null and returns, so that `.finally(() => setLoaded(true))` runs at once.
Mount ==
    /\ last' = Task("Mount", NoRequest, NoResponse, <<>>)
    /\ phase = "document"
    /\ phase' = "mounted"
    /\ UNCHANGED <<variant, path, loads, ops, token>>
    /\ LET navs0 == navs \o Tagged(RedirectEffect(user, loaded, path), "effect", token)
       IN  IF variant = "bearer" /\ Falsy(token)
           THEN /\ refreshes' = refreshes \cup {"fulfilled"}
                /\ Commit(NoUser, TRUE, token, navs0, net, sent, nextId, loading, errors, contents)
           ELSE /\ refreshes' = refreshes
                /\ Commit(user, loaded, token, navs0,
                          net \cup {Request(nextId, "me", TRUE, 0, <<>>)},
                          [sent EXCEPT !["me"] = @ + 1], nextId + 1,
                          loading, errors, contents)
    /\ UNCHANGED <<reachedBy, call, opsVars>>

\* The identity request r settles with resp: refresh() (or getUser()) resumes,
\* and for the request issued on mount the chained reaction sets `loaded`.
\* The reactions run as microtasks of one task, so React commits once.
SettleMe(r, resp) ==
    /\ last' = Task("SettleMe", r, resp, <<>>)
    /\ Ready
    /\ r \in InFlight("me")
    /\ UNCHANGED <<variant, path, phase, loads, ops, token>>
    /\ LET res == IF variant = "cookie" THEN refresh_cookie(resp, r.id)
                  ELSE IF variant = "bearer" THEN refresh_bearer(resp, r.id)
                  ELSE RefreshResult(TRUE, getUser(resp, r.id), "fulfilled")
           u2  == IF res.called THEN res.set ELSE user
           l2  == LoadedAfter(r.initial, res, loaded)
       IN  /\ refreshes' = IF variant = "legacy" THEN refreshes
                           ELSE refreshes \cup {res.promise}
           /\ Commit(u2, l2, token, navs, net \ {r}, sent, nextId, loading, errors, contents)
    /\ UNCHANGED <<reachedBy, call, opsVars>>

\* A page calls refresh() from the session context.
CallRefresh ==
    /\ last' = Task("CallRefresh", NoRequest, NoResponse, <<>>)
    /\ Ready
    /\ variant \in {"cookie", "bearer"}
    /\ childrenShown
    /\ ops < MaxOps
    /\ ops' = ops + 1
    /\ UNCHANGED <<variant, path, phase, loads, token>>
    /\ IF variant = "bearer" /\ Falsy(token)
       THEN /\ refreshes' = refreshes \cup {"fulfilled"}
            /\ Commit(NoUser, loaded, token, navs, net, sent, nextId, loading, errors, contents)
       ELSE /\ net' = net \cup {Request(nextId, "me", FALSE, 0, <<>>)}
            /\ sent' = [sent EXCEPT !["me"] = @ + 1]
            /\ nextId' = nextId + 1
            /\ UNCHANGED <<user, loaded, navs, childrenShown, refreshes, loading,
                           errors, adminView, tableInst, contents, pageVars>>
    /\ UNCHANGED <<reachedBy, call, opsVars>>

\* logout(): the header's Logout button (rendered while a user is held) or a
\* page calling it from the session context.
ClickLogout ==
    /\ last' = Task("ClickLogout", NoRequest, NoResponse, <<>>)
    /\ Ready
    /\ user # NoUser \/ (childrenShown /\ variant # "legacy")
    /\ ops < MaxOps
    /\ ops' = ops + 1
    /\ UNCHANGED <<variant, path, phase, loads, refreshes>>
    /\ CASE variant = "cookie" ->
              /\ net' = net \cup {Request(nextId, "logout", FALSE, 0, <<>>)}
              /\ sent' = [sent EXCEPT !["logout"] = @ + 1]
              /\ nextId' = nextId + 1
              /\ UNCHANGED <<token, user, loaded, navs, childrenShown, loading,
                             errors, adminView, tableInst, contents, pageVars>>
         [] variant = "bearer" ->
              /\ token' = NoToken
              /\ Commit(NoUser, loaded, NoToken,
                        Append(navs, Nav(LoginPath, "logout", NoToken)),
                        net, sent, nextId, loading, errors, contents)
         [] variant = "legacy" ->
              /\ token' = NoToken
              /\ navs' = Append(navs, Nav(LoginPath, "logout", NoToken))
              /\ UNCHANGED <<user, loaded, net, nextId, sent, childrenShown, loading,
                             errors, adminView, tableInst, contents, pageVars>>
    /\ UNCHANGED <<reachedBy, call, opsVars>>

\* The reaction attached with .then: it runs only if fetch fulfilled.
SettleLogout_Then(r, resp) ==
    /\ last' = Task("SettleLogout", r, resp, <<>>)
    /\ Ready
    /\ r \in InFlight("logout")
    /\ UNCHANGED <<variant, path, phase, loads, ops, token, refreshes>>
    /\ IF resp.net = "fail"
       THEN Commit(user, loaded, token, navs, net \ {r}, sent, nextId, loading, errors, contents)
       ELSE Commit(NoUser, loaded, token, Append(navs, Nav(LoginPath, "logout", token)),
                   net \ {r}, sent, nextId, loading, errors, contents)
    /\ UNCHANGED <<reachedBy, call, opsVars>>

\* POST /auth/logout settles; the .finally reaction runs on every outcome.
SettleLogout(r, resp) ==
    /\ last' = Task("SettleLogout", r, resp, <<>>)
    /\ Ready
    /\ r \in InFlight("logout")
    /\ UNCHANGED <<variant, path, phase, loads, ops, token, refreshes>>
    /\ Commit(NoUser, loaded, token, Append(navs, Nav(LoginPath, "logout", token)),
              net \ {r}, sent, nextId, loading, errors, contents)
    /\ UNCHANGED <<reachedBy, call, opsVars>>

\* The login form is submitted with the given field values.  form.onSubmit
\* validates first and calls doLogin only without errors; doLogin runs up to
\* its await.  A disabled submit button blocks submission.
Submit(userName, password) ==
    /\ last' = Task("Submit", NoRequest, NoResponse, <<userName, password>>)
    /\ Ready
    /\ childrenShown
    /\ PageAt(path) = "login"
    /\ ~loading
    /\ ops < MaxOps
    /\ ops' = ops + 1
    /\ LET errs == [userName |-> validate_userName(userName),
                    password |-> validate_password(password)]
       IN  /\ errors' = errs
           /\ IF errs # NoErrors
              THEN UNCHANGED <<loading, net, sent, nextId>>
              ELSE /\ loading' = TRUE
                   /\ net' = net \cup {Request(nextId, "token", FALSE, 0,
                                               TokenBody(userName, password))}
                   /\ sent' = [sent EXCEPT !["token"] = @ + 1]
                   /\ nextId' = nextId + 1
    /\ UNCHANGED <<variant, path, phase, loads, token, user, loaded, navs,
                   childrenShown, refreshes, adminView, tableInst, contents, pageVars>>
    /\ UNCHANGED <<reachedBy, call, opsVars>>

\* The token request settles and doLogin resumes after its await.
SettleToken(r, resp) ==
    /\ last' = Task("SettleToken", r, resp, <<>>)
    /\ Ready
    /\ r \in InFlight("token")
    /\ LET out == doLogin(resp, errors, token, navs, loading)
       IN  /\ errors' = out.errors
           /\ token' = out.token
           /\ navs' = out.navs
           /\ loading' = out.loading
    /\ net' = net \ {r}
    /\ UNCHANGED <<variant, path, phase, loads, ops, user, loaded, nextId, sent,
                   childrenShown, refreshes, adminView, tableInst, contents, pageVars>>
    /\ UNCHANGED <<reachedBy, call, opsVars>>

\* GET /auth/users settles; setContents acts only on a still-mounted instance.
SettleUsers(r, resp) ==
    /\ last' = Task("SettleUsers", r, resp, <<>>)
    /\ Ready
    /\ r \in InFlight("users")
    /\ net' = net \ {r}
    /\ contents' = IF r.inst # tableInst THEN contents
                   ELSE UsersTable_then(resp)
    /\ UNCHANGED <<variant, path, phase, loads, ops, token, user, loaded, nextId, sent,
                   navs, childrenShown, refreshes, loading, errors, adminView, tableInst,
                   pageVars>>
    /\ UNCHANGED <<reachedBy, call, opsVars>>

\* /whoami settles: the reactions of the effect that issued r run; the state
\* setters act only on a still-mounted instance.
SettleWhoami(r, resp) ==
    /\ last' = Task("SettleWhoami", r, resp, <<>>)
    /\ Ready
    /\ r \in InFlight("whoami")
    /\ net' = net \ {r}
    /\ LET res == Main_then(variant, resp, r.ctx, roleBadges)
       IN  /\ whoami' = IF r.inst # homeInst THEN whoami ELSE res.whoami
           /\ roleBadges' = IF r.inst # homeInst THEN roleBadges ELSE res.roleBadges
    /\ UNCHANGED <<variant, path, phase, loads, ops, token, user, loaded, nextId, sent,
                   navs, childrenShown, refreshes, loading, errors, adminView, tableInst,
                   contents, homeInst, userId, updInst, updUser, isLoading, updEffect,
                   updSettled, acctInst, submitting, modals>>
    /\ UNCHANGED <<reachedBy, call, opsVars>>

\* UpdateUserMain's effect runs, after the commit that mounted the component
\* has been painted.
UpdateUserEffect ==
    /\ last' = Task("UpdateUserEffect", NoRequest, NoResponse, <<>>)
    /\ phase = "mounted"
    /\ updEffect
    /\ updEffect' = FALSE
    /\ IF userId = ""
       THEN /\ updUser' = NoRecord
            /\ isLoading' = FALSE
            /\ UNCHANGED <<net, sent, nextId>>
       ELSE /\ isLoading' = TRUE
            /\ net' = net \cup {RequestFor(nextId, "user", updInst, NoUser)}
            /\ sent' = [sent EXCEPT !["user"] = @ + 1]
            /\ nextId' = nextId + 1
            /\ UNCHANGED updUser
    /\ UNCHANGED <<variant, path, phase, loads, ops, token, user, loaded, navs,
                   childrenShown, refreshes, loading, errors, adminView, tableInst,
                   contents, homeInst, whoami, roleBadges, userId, updInst, updSettled,
                   acctInst, submitting, modals>>
    /\ UNCHANGED <<reachedBy, call, opsVars>>

\* GET /auth/users/{id} settles: the two `.then` reactions or the `.catch`
\* reaction call setUser, the `.finally` reaction calls setIsLoading(false);
\* the setters act only on a still-mounted instance.
SettleUser(r, resp) ==
    /\ last' = Task("SettleUser", r, resp, <<>>)
    /\ Ready
    /\ r \in InFlight("user")
    /\ net' = net \ {r}
    /\ IF r.inst # updInst
       THEN UNCHANGED <<updUser, isLoading, updSettled>>
       ELSE /\ updUser' = UpdateUserMain_then(resp, userId)
            /\ isLoading' = FALSE
            /\ updSettled' = TRUE
    /\ UNCHANGED <<variant, path, phase, loads, ops, token, user, loaded, nextId, sent,
                   navs, childrenShown, refreshes, loading, errors, adminView, tableInst,
                   contents, homeInst, whoami, roleBadges, userId, updInst, updEffect,
                   acctInst, submitting, modals>>
    /\ UNCHANGED <<reachedBy, call, opsVars>>

\* The password form is submitted: form.onSubmit validates and, if no rule
\* reports an error, calls changePassword, which runs up to its await.  The
\* submit button is disabled while `submitting`.
SubmitPassword(oldPassword, newPassword, confirmNewPassword) ==
    /\ last' = Task("SubmitPassword", NoRequest, NoResponse,
                    <<oldPassword, newPassword, confirmNewPassword>>)
    /\ Ready
    /\ acctInst # 0
    /\ ~submitting
    /\ ops < MaxOps
    /\ ops' = ops + 1
    /\ IF MyAccount_valid(oldPassword, newPassword, confirmNewPassword)
       THEN /\ submitting' = TRUE
            /\ net' = net \cup {Request(nextId, "patch", FALSE, acctInst,
                                         <<oldPassword, newPassword>>)}
            /\ sent' = [sent EXCEPT !["patch"] = @ + 1]
            /\ nextId' = nextId + 1
       ELSE UNCHANGED <<submitting, net, sent, nextId>>
    /\ UNCHANGED <<variant, path, phase, loads, token, user, loaded, navs,
                   childrenShown, refreshes, loading, errors, adminView, tableInst,
                   contents, homeInst, whoami, roleBadges, userId, updInst, updUser,
                   isLoading, updEffect, updSettled, acctInst, modals>>
    /\ UNCHANGED <<reachedBy, call, opsVars>>

\* PATCH /auth/users/me settles: changePassword resumes.  modals.open reaches
\* a mounted ModalsProvider; setSubmitting acts on the instance that submitted.
SettlePatch(r, resp) ==
    /\ last' = Task("SettlePatch", r, resp, <<>>)
    /\ Ready
    /\ r \in InFlight("patch")
    /\ net' = net \ {r}
    /\ modals' = IF acctInst = 0 THEN modals
                 ELSE Append(modals, changePassword_then(resp, r.id))
    /\ submitting' = IF r.inst # acctInst THEN submitting ELSE FALSE
    /\ UNCHANGED <<variant, path, phase, loads, ops, token, user, loaded, nextId, sent,
                   navs, childrenShown, refreshes, loading, errors, adminView, tableInst,
                   contents, homeInst, whoami, roleBadges, userId, updInst, updUser,
                   isLoading, updEffect, updSettled, acctInst>>
    /\ UNCHANGED <<reachedBy, call, opsVars>>

\* The browser commits the navigation the document asked for last: the old
\* document and its requests are dropped, session storage is kept.
PageLoad ==
    /\ last' = [op |-> "load", req |-> NoRequest, resp |-> NoResponse, args |-> <<>>,
                userBefore |-> NoUser]
    /\ Ready
    /\ navs # <<>>
    /\ loads < MaxLoads
    /\ path' = navs[Len(navs)].to
    /\ phase' = "document"
    /\ loads' = loads + 1
    /\ ops' = 0
    /\ user' = NoUser
    /\ loaded' = FALSE
    /\ net' = {}
    /\ nextId' = 1
    /\ sent' = [e \in Endpoints |-> 0]
    /\ navs' = <<>>
    /\ childrenShown' = FALSE
    /\ refreshes' = {}
    /\ loading' = FALSE
    /\ errors' = NoErrors
    /\ adminView' = "unmounted"
    /\ tableInst' = 0
    /\ contents' = NoContents
    /\ homeInst' = 0
    /\ whoami' = NoNode
    /\ roleBadges' = NoBadges
    /\ userId' = ""
    /\ updInst' = 0
    /\ updUser' = NoRecord
    /\ isLoading' = FALSE
    /\ updEffect' = FALSE
    /\ updSettled' = FALSE
    /\ acctInst' = 0
    /\ submitting' = FALSE
    /\ modals' = <<>>
    /\ UNCHANGED <<variant, token>>
    /\ reachedBy' = navs[Len(navs)].by
    /\ UNCHANGED <<call, opsVars>>

Next ==
    \/ Mount
    \/ \E r \in net, resp \in MeResponses : SettleMe(r, resp)
    \/ CallRefresh
    \/ ClickLogout
    \/ \E r \in net, resp \in PlainResponses : SettleLogout(r, resp)
    \/ \E userName \in FieldValues, password \in FieldValues : Submit(userName, password)
    \/ \E r \in net, resp \in TokenResponses : SettleToken(r, resp)
    \/ \E r \in net, resp \in UsersResponses : SettleUsers(r, resp)
    \/ \E r \in net, resp \in WhoamiResponses : SettleWhoami(r, resp)
    \/ UpdateUserEffect
    \/ \E r \in net, resp \in UserResponses : SettleUser(r, resp)
    \/ \E o \in PasswordValues, n \in PasswordValues, c \in PasswordValues :
          SubmitPassword(o, n, c)
    \/ \E r \in net, resp \in PatchResponses : SettlePatch(r, resp)
    \/ PageLoad

Spec == Init /\ [][Next]_vars

-----------------------------------------------------------------------------
(* Actions of the operations side *)

\* The operator runs the database bootstrap script; it sources the
\* environment file, which holds env.
RunCreateDtp(env) ==
    /\ run = Idle
    /\ Len(runLog) < MaxRuns
    /\ run' = Started("create_dtp", <<>>, env, create_dtp(env))
    /\ UNCHANGED <<pg, serve, services, runLog>>
    /\ UNCHANGED <<vm, frontVars>>

\* The next line of the script is a `docker exec ... psql -c` command: it
\* reaches the server and runs the statement, or docker exec fails.
ExecPsql(reached) ==
    /\ run.prog # "idle"
    /\ run.pc <= Len(run.script)
    /\ run.script[run.pc].tool = "psql"
    /\ LET res == Psql(pg, run.script[run.pc])
       IN  IF reached
           THEN /\ pg' = res.srv
                /\ run' = Stepped(run, IF res.ok THEN "ok" ELSE "error")
           ELSE /\ pg' = pg
                /\ run' = Stepped(run, "unreachable")
    /\ UNCHANGED <<serve, services, runLog>>
    /\ UNCHANGED <<vm, frontVars>>

\* The script has run past its last line: the process exits.
Exit ==
    /\ run.prog # "idle"
    /\ run.pc > Len(run.script)
    /\ runLog' = Append(runLog, Completed(run))
    /\ run' = Idle
    /\ UNCHANGED <<pg, serve, services>>
    /\ UNCHANGED <<vm, frontVars>>

\* The host before the bootstrap script is run; the browser tab stays as
\* loaded.
DbInit ==
    /\ FrontInit
    /\ variant = "cookie" /\ path = HomePath /\ token = NoToken
    /\ pg \in PriorServers
    /\ serve = {}
    /\ services = {}
    /\ run = Idle
    /\ runLog = <<>>
    /\ vm = FreshVm

DbNext ==
    \/ \E env \in Envs : RunCreateDtp(env)
    \/ \E reached \in BOOLEAN : ExecPsql(reached)
    \/ Exit

DbSpec == DbInit /\ [][DbNext]_vars

\* The operator runs a recipe of the task runner.
RunRecipe(name, arg) ==
    /\ run = Idle
    /\ Len(runLog) < MaxRuns
    /\ arg \in Args(name)
    /\ run' = Started(name, arg, NoEnv, Recipe(name, arg))
    /\ UNCHANGED <<pg, serve, services, runLog>>
    /\ UNCHANGED <<vm, frontVars>>

\* The next command is a tailscale command, served by the running daemon.
ExecTailscale ==
    /\ run.prog # "idle"
    /\ run.pc <= Len(run.script)
    /\ run.script[run.pc].tool = "tailscale"
    /\ serve' = Tailscale(serve, Expand(run.script[run.pc], run.port))
    /\ run' = Stepped(run, "ok")
    /\ UNCHANGED <<pg, services, runLog>>
    /\ UNCHANGED <<vm, frontVars>>

\* The next line assigns PORT: the recipe's argument if one was given, else
\* what gum input prints, which is what the operator typed or nothing.
ExecPrompt(answer) ==
    /\ run.prog # "idle"
    /\ run.pc <= Len(run.script)
    /\ run.script[run.pc].tool = "gum"
    /\ run' = IF run.arg # <<>>
              THEN [run EXCEPT !.port = run.arg, !.status = 0,
                               !.pc = NextLine(run.pc, 0, Len(run.script))]
              ELSE [Stepped(run, "ok") EXCEPT !.port = answer]
    /\ UNCHANGED <<pg, serve, services, runLog>>
    /\ UNCHANGED <<vm, frontVars>>

\* The next line is the test of $PORT: on an empty value the recipe prints
\* the message and exits with code 1.
ExecIfEmpty ==
    /\ run.prog # "idle"
    /\ run.pc <= Len(run.script)
    /\ run.script[run.pc].tool = "if"
    /\ run' = IF run.port = <<>>
              THEN [run EXCEPT !.echoed = Append(@, Cancelled), !.status = 1,
                               !.pc = Len(run.script) + 1]
              ELSE [run EXCEPT !.status = 0,
                               !.pc = NextLine(run.pc, 0, Len(run.script))]
    /\ UNCHANGED <<pg, serve, services, runLog>>
    /\ UNCHANGED <<vm, frontVars>>

\* The next command is docker compose up or down: it succeeds or fails.
ExecCompose(ok) ==
    /\ run.prog # "idle"
    /\ run.pc <= Len(run.script)
    /\ run.script[run.pc].tool = "compose"
    /\ run.script[run.pc].op \in {"up", "down"}
    /\ services' = IF ok THEN Compose(services, run.script[run.pc]) ELSE services
    /\ run' = Stepped(run, IF ok THEN "ok" ELSE "error")
    /\ UNCHANGED <<pg, serve, runLog>>
    /\ UNCHANGED <<vm, frontVars>>

\* The next command is the pipeline of docker-ports: its output is yq's.
ExecPorts ==
    /\ run.prog # "idle"
    /\ run.pc <= Len(run.script)
    /\ run.script[run.pc] = ComposePsYq
    /\ run' = [Stepped(run, "ok") EXCEPT !.out = yq_ports(services)]
    /\ UNCHANGED <<pg, serve, services, runLog>>
    /\ UNCHANGED <<vm, frontVars>>

\* The host before a recipe is run: some ad-hoc serve rules, and the stack
\* with each container running or not.
JustInit ==
    /\ FrontInit
    /\ variant = "cookie" /\ path = HomePath /\ token = NoToken
    /\ pg = FreshServer
    /\ serve \in SUBSET AdHocRules
    /\ \E pt \in PortsTexts, pp \in PortsTexts, rt \in BOOLEAN, rp \in BOOLEAN :
          services = {Container(Traefik, rt, pt), Container(Postgres, rp, pp)}
    /\ run = Idle
    /\ runLog = <<>>
    /\ vm = FreshVm

JustNext ==
    \/ \E name \in Recipes, arg \in ServiceNames \cup {AllServices} : RunRecipe(name, arg)
    \/ ExecTailscale
    \/ \E ok \in BOOLEAN : ExecCompose(ok)
    \/ ExecPorts
    \/ Exit

JustSpec == JustInit /\ [][JustNext]_vars

\* The host before a serve or unserve recipe is run: some serve rules.
ServeInit ==
    /\ FrontInit
    /\ variant = "cookie" /\ path = HomePath /\ token = NoToken
    /\ pg = FreshServer
    /\ serve \in SUBSET AdHocRules
    /\ services = {}
    /\ run = Idle
    /\ runLog = <<>>
    /\ vm = FreshVm

ServeNext ==
    \/ \E name \in PortRecipes, arg \in PortArgs : RunRecipe(name, arg)
    \/ \E answer \in PromptAnswers : ExecPrompt(answer)
    \/ ExecIfEmpty
    \/ ExecTailscale
    \/ Exit

ServeSpec == ServeInit /\ [][ServeNext]_vars

\* The operator runs setup.sh.
RunSetup ==
    /\ run = Idle
    /\ Len(runLog) < MaxRuns
    /\ run' = Started("setup", <<>>, NoEnv, setup_sh)
    /\ UNCHANGED <<pg, serve, services, runLog, vm>>
    /\ UNCHANGED frontVars

\* The step at the script's position is op.
AtStep(op) ==
    /\ run.prog = "setup"
    /\ run.pc <= Len(run.script)
    /\ run.script[run.pc].op = op

\* The PATH step without its `exit 1`.
ExecPath_NoExit ==
    /\ AtStep("path")
    /\ vm' = IF ~vm.onPath THEN [vm EXCEPT !.bashrc = Append(@, PathGuard)] ELSE vm
    /\ run' = SetupStepped(run, TRUE)
    /\ UNCHANGED <<pg, serve, services, runLog>>
    /\ UNCHANGED frontVars

\* Ensure ~/.local/bin is on PATH: if it is not, append the guard to
\* ~/.bashrc, export PATH for this process and exit 1.
ExecPath ==
    /\ AtStep("path")
    /\ IF ~vm.onPath
       THEN /\ vm' = [vm EXCEPT !.bashrc = Append(@, PathGuard)]
            /\ run' = [run EXCEPT !.issued = Append(@, run.script[run.pc]),
                                  !.results = Append(@, "exit"),
                                  !.status = 1, !.pc = Len(run.script) + 1]
       ELSE /\ vm' = vm
            /\ run' = SetupStepped(run, TRUE)
    /\ UNCHANGED <<pg, serve, services, runLog>>
    /\ UNCHANGED frontVars

\* Install pureline unless `command -v` finds it; the clone can fail.
ExecPureline(cloned) ==
    /\ AtStep("pureline")
    /\ IF vm.onPath /\ "bin" \in vm.files
       THEN vm' = vm /\ run' = SetupStepped(run, TRUE)
       ELSE IF "repo" \in vm.files
       THEN vm' = [vm EXCEPT !.files = @ \cup {"bin"}] /\ run' = SetupStepped(run, TRUE)
       ELSE IF cloned
       THEN /\ vm' = [vm EXCEPT !.files = @ \cup {"repo", "bin"}]
            /\ run' = SetupStepped(run, TRUE)
       ELSE vm' = vm /\ run' = SetupStepped(run, FALSE)
    /\ UNCHANGED <<pg, serve, services, runLog>>
    /\ UNCHANGED frontVars

\* Append the pureline block unless grep finds its marker in ~/.bashrc.
ExecPurelineBashrc ==
    /\ AtStep("pureline bashrc")
    /\ vm' = IF \E k \in DOMAIN vm.bashrc : vm.bashrc[k] = PurelineBlock
             THEN vm
             ELSE [vm EXCEPT !.bashrc = Append(@, PurelineBlock)]
    /\ run' = SetupStepped(run, TRUE)
    /\ UNCHANGED <<pg, serve, services, runLog>>
    /\ UNCHANGED frontVars

\* uv, the package sources, the packages, and the Docker and Bun prompts:
\* each succeeds (a declined prompt included) or fails.
ExecLater(ok) ==
    /\ \E op \in {"uv", "sources", "packages", "docker", "bun"} : AtStep(op)
    /\ run' = SetupStepped(run, ok)
    /\ UNCHANGED <<pg, serve, services, runLog, vm>>
    /\ UNCHANGED frontVars

\* The operator logs out and back in: the new session reads ~/.bashrc.
NewSession ==
    /\ run = Idle
    /\ ~vm.onPath
    /\ \E k \in DOMAIN vm.bashrc : vm.bashrc[k] = PathGuard
    /\ vm' = [vm EXCEPT !.onPath = TRUE]
    /\ UNCHANGED <<pg, serve, services, run, runLog>>
    /\ UNCHANGED frontVars

\* The machine before setup.sh is run: a new one, or one set up earlier.
SetupInit ==
    /\ FrontInit
    /\ variant = "cookie" /\ path = HomePath /\ token = NoToken
    /\ pg = FreshServer
    /\ serve = {}
    /\ services = {}
    /\ run = Idle
    /\ runLog = <<>>
    /\ \E onPath \in BOOLEAN, files \in {{}, {"repo"}, {"repo", "bin"}} :
          vm = Vm(<<DistroBashrc>>, onPath, files)

SetupNext ==
    \/ RunSetup
    \/ ExecPath
    \/ \E cloned \in BOOLEAN : ExecPureline(cloned)
    \/ ExecPurelineBashrc
    \/ \E ok \in BOOLEAN : ExecLater(ok)
    \/ NewSession
    \/ Exit

SetupSpec == SetupInit /\ [][SetupNext]_vars

-----------------------------------------------------------------------------
(* Calls of the helper functions *)

\* The optional string[] arguments tried: absent, or an array of up to
\* MaxArr strings.
Strings == {"a", "b", "x"}
StringArrays == {Absent} \cup { Arr(a) : a \in UNION { [1..n -> Strings] : n \in 0..MaxArr } }

\* A component calls commonString(arr1, arr2).
CallCommonString(arr1, arr2) ==
    /\ call' = [fn |-> "commonString", args |-> <<arr1, arr2>>,
                result |-> commonString(arr1, arr2)]
    /\ UNCHANGED <<tabVars, opsVars>>

\* The inits a caller passes: none, or any mode and method with an accept
\* header in either spelling, an Authorization header and another header,
\* each present or not.
Inits ==
    {NoInit} \cup
    { RequestInit(mode, method, a \cup b \cup c) :
        mode \in {"unset", "cors", "no-cors"}, method \in {"unset", "POST"},
        a \in {{}, {Header("accept", <<"text/html">>)}, {Header("Accept", <<"text/html">>)}},
        b \in {{}, {Header("Authorization", <<"Basic", "x">>)}},
        c \in {{}, {Header("X-Trace", <<"1">>)}} }

\* A component calls authFetch(input, init); the token is read from session
\* storage.
CallAuthFetch(init) ==
    /\ call' = [fn |-> "authFetch", args |-> <<init, token>>,
                result |-> authFetch(init, token)]
    /\ UNCHANGED <<tabVars, opsVars>>

UtilNext ==
    \/ \E arr1 \in StringArrays, arr2 \in StringArrays : CallCommonString(arr1, arr2)
    \/ \E init \in Inits : CallAuthFetch(init)

\* A page of the bearer revision has been loaded; its components call the
\* helpers.
UtilInit == Init /\ variant = "bearer" /\ path = HomePath

UtilSpec == UtilInit /\ [][UtilNext]_vars

-----------------------------------------------------------------------------
(* Vocabulary of the properties *)

OnLoginPath == StartsWith(path, LoginPrefix)

\* A step of the current document (not the load of the next one).
SameDocument == loads' = loads

\* The assignments to window.location.href a step adds, and those of one origin.
NewNavs == SubSeq(navs', Len(navs) + 1, Len(navs'))
NewNavsBy(by) == SelectSeq(NewNavs, LAMBDA n : n.by = by)

RECURSIVE Targets(_)
Targets(ns) == IF ns = <<>> THEN <<>> ELSE <<Head(ns).to>> \o Targets(Tail(ns))

\* The step ran handler op: an operation of the user or a page, or the
\* settling of the request recorded in last'.
StepIs(op) ==
    /\ SameDocument
    /\ last'.op = op
    /\ \/ ops' = ops + 1
       \/ last'.req \in net /\ last'.req \notin net'
       \/ phase' # phase

\* The step re-ran the shell's redirect effect: a commit in which one of the
\* effect's dependencies changed.
EffectReran == SameDocument /\ (user' # user \/ loaded' # loaded)

-----------------------------------------------------------------------------
(* C1 *)

\* C1: page content is rendered only if `loaded` is true and a user is held or
\* the path starts with /login; so on a non-login path nothing is rendered
\* while no user is held, neither before the first identity check resolves nor
\* after refresh() or logout() cleared the user.
C1_ContentGated ==
    /\ childrenShown => loaded /\ (user # NoUser \/ OnLoginPath)
    /\ ~OnLoginPath /\ user = NoUser => ~childrenShown

\* A protected page whose user was cleared by a completed logout shows nothing.
C1_Witness ==
    /\ ~OnLoginPath
    /\ loaded
    /\ user = NoUser
    /\ last.userBefore # NoUser
    /\ last.op \in {"SettleLogout", "ClickLogout", "SettleMe"}
    /\ ~childrenShown

-----------------------------------------------------------------------------
(* C2 *)

\* C2: until the initial identity check resolves `loaded` is false and no
\* navigation has been issued, also on a protected path; the step in which
\* the check resolves with no user on a non-login path issues exactly one
\* navigation, to /login.
C2_OneRedirectAfterCheck ==
    /\ [](~loaded => navs = <<>>)
    /\ [][ SameDocument /\ ~loaded /\ loaded' /\ user' = NoUser /\ ~OnLoginPath
             => Targets(navs') = <<LoginPath>> ]_vars

\* The check has just resolved without a user on a protected path.
C2_Witness ==
    /\ ~OnLoginPath
    /\ loaded
    /\ user = NoUser
    /\ last.op \in {"SettleMe", "Mount"}
    /\ Len(navs) = 1
    /\ navs[1].to = LoginPath

-----------------------------------------------------------------------------
(* C3 *)

\* What the redirect policy asks for, given the user held and the path.
C3_Expected(u) ==
    IF u = NoUser /\ ~OnLoginPath THEN <<LoginPath>>
    ELSE IF u # NoUser /\ OnLoginPath THEN <<HomePath>>
    ELSE <<>>

\* C3: once `loaded` is true, a run of the redirect effect navigates to /login
\* exactly when no user is held off the login path, to / exactly when a user
\* is held on a login path, and nowhere in the two other cases; while
\* `loaded` is false the effect navigates nowhere.
C3_RedirectPolicy ==
    [][ /\ EffectReran /\ loaded' => Targets(NewNavsBy("effect")) = C3_Expected(user')
        /\ SameDocument /\ ~loaded' => NewNavsBy("effect") = <<>> ]_vars

\* The effect has sent a held user from the login page to /.
C3_Witness ==
    /\ OnLoginPath
    /\ loaded
    /\ user # NoUser
    /\ navs # <<>>
    /\ navs[Len(navs)] = Nav(HomePath, "effect", token)

-----------------------------------------------------------------------------
(* C4 *)

\* The step settles the identity check issued on mount.
InitialCheckSettles ==
    \/ StepIs("SettleMe") /\ last'.req.initial
    \/ StepIs("Mount") /\ variant = "bearer" /\ Falsy(token)

\* C4: `loaded` starts false, is true from the step in which the initial
\* identity check settles, whatever its outcome, and is never set back to
\* false on the same document by any later refresh() or logout().
C4_LoadedOnceAndForAll ==
    /\ [](phase = "document" => ~loaded)
    /\ [][ /\ InitialCheckSettles => loaded'
           /\ SameDocument /\ ~loaded /\ loaded' => InitialCheckSettles
           /\ SameDocument /\ loaded => loaded' ]_vars

\* After the initial check a later refresh() has settled and a logout has
\* completed: `loaded` is still true.
C4_Witness ==
    /\ loaded
    /\ ops = 2
    /\ sent["me"] = 2
    /\ InFlight("me") = {}
    /\ \E i \in DOMAIN navs : navs[i].by = "logout"

-----------------------------------------------------------------------------
(* C5 *)

\* A success response whose body is the user record.
C5_Success(resp) == resp.net = "ok" /\ Ok(resp.status) /\ resp.parse

\* C5: refresh() never throws, that is no promise it returned is rejected;
\* when its request settles with a success response the returned user is
\* held, and with a non-success response, an unparsable body or a network
\* failure no user is held, whatever user was held before.  Without a
\* request (bearer revision, no token) the user is cleared as well.
C5_RefreshNeverThrows ==
    /\ []("rejected" \notin refreshes)
    /\ [][ /\ StepIs("SettleMe") /\ variant # "legacy" =>
                user' = IF C5_Success(last'.resp)
                        THEN UserObj(last'.req.id, last'.resp.acct)
                        ELSE NoUser
           /\ StepIs("CallRefresh") /\ net' = net => user' = NoUser ]_vars

\* A later refresh() failed on the network while a user was held.
C5_Witness ==
    /\ variant # "legacy"
    /\ last.op = "SettleMe"
    /\ ~last.req.initial
    /\ last.resp.net = "fail"
    /\ last.userBefore # NoUser
    /\ user = NoUser
    /\ refreshes = {"fulfilled"}

-----------------------------------------------------------------------------
(* C6 *)

\* The step completes a logout() of the session layer: the settling of
\* POST /auth/logout (cookie revision) or the call itself (bearer revision).
LogoutCompletes ==
    \/ StepIs("SettleLogout")
    \/ StepIs("ClickLogout") /\ variant = "bearer"

\* C6: when logout() completes, the held user is cleared and a navigation to
\* /login is issued, whether POST /auth/logout succeeded, was refused or
\* failed on the network.
C6_LogoutAlwaysClears ==
    [][ LogoutCompletes =>
            /\ user' = NoUser
            /\ Targets(NewNavsBy("logout")) = <<LoginPath>> ]_vars

\* A logout whose request failed on the network cleared the user and navigated.
C6_Witness ==
    /\ last.op = "SettleLogout"
    /\ last.resp.net = "fail"
    /\ last.userBefore # NoUser
    /\ user = NoUser
    /\ \E i \in DOMAIN navs : navs[i] = Nav(LoginPath, "logout", token)

-----------------------------------------------------------------------------
(* C7 *)

\* C7: a submission of the login form with an empty username and/or password
\* leaves the message of each empty field on that field and issues no
\* request; a token request is issued only by a submission with both fields
\* non-empty.
C7_EmptyFieldsStayLocal ==
    [][ /\ StepIs("Submit") /\ (last'.args[1] = <<>> \/ last'.args[2] = <<>>) =>
              /\ sent' = sent
              /\ net' = net
              /\ errors'.userName = IF last'.args[1] = <<>>
                                    THEN "Please enter a username" ELSE NoError
              /\ errors'.password = IF last'.args[2] = <<>>
                                    THEN "Please enter a password" ELSE NoError
        /\ SameDocument /\ sent'["token"] # sent["token"] =>
              /\ StepIs("Submit")
              /\ last'.args[1] # <<>>
              /\ last'.args[2] # <<>> ]_vars

\* Both fields were empty at the last submission: two messages, no request.
C7_Witness ==
    /\ last.op = "Submit"
    /\ last.args = << <<>>, <<>> >>
    /\ errors = [userName |-> "Please enter a username",
                 password |-> "Please enter a password"]
    /\ sent["token"] = 0
    /\ ~loading

-----------------------------------------------------------------------------
(* C8 *)

C8_NonBlank(s) == \E i \in DOMAIN s : s[i] # " "

\* The token endpoint answered HTTP 200 with a non-blank string access_token.
C8_Usable(resp) ==
    /\ resp.net = "ok"
    /\ resp.parse
    /\ resp.status = 200
    /\ resp.access_token.t = "string"
    /\ C8_NonBlank(resp.access_token.s)

\* The messages the claim allows on the password field after a failure.
C8_Allowed(resp) ==
    {UnknownError} \cup
    (IF resp.net = "ok" /\ resp.parse /\ resp.detail.t = "string"
     THEN {resp.detail.s} ELSE {})

\* C8: the login page navigates to / exactly when the token request returned
\* HTTP 200 with a non-blank string access_token, and the token is in session
\* storage when that navigation is issued; on every other outcome it issues
\* no navigation, stores nothing, and puts the server's detail or the generic
\* message on the password field (the detail whenever a non-200 answer has one).
C8_LoginOutcome ==
    [][ /\ StepIs("SettleToken") =>
              LET resp == last'.resp
              IN  IF C8_Usable(resp)
                  THEN /\ token' = Stored(resp.access_token.s)
                       /\ NewNavs = <<Nav(HomePath, "login", Stored(resp.access_token.s))>>
                  ELSE /\ navs' = navs
                       /\ token' = token
                       /\ errors'.password \in C8_Allowed(resp)
                       /\ resp.net = "ok" /\ resp.parse /\ resp.status # 200
                             /\ resp.detail.t = "string"
                          => errors'.password = resp.detail.s
        /\ SameDocument /\ NewNavsBy("login") # <<>> => StepIs("SettleToken") ]_vars

\* A login succeeded: the token is stored and / is the target.
C8_Witness ==
    /\ last.op = "SettleToken"
    /\ C8_Usable(last.resp)
    /\ token = Stored(last.resp.access_token.s)
    /\ navs # <<>>
    /\ navs[Len(navs)] = Nav(HomePath, "login", token)

-----------------------------------------------------------------------------
(* C9 *)

\* C9: the submit control is disabled exactly while a token request is in
\* flight, so that it is enabled again after every attempt that has settled.
C9_DisabledOnlyInFlight ==
    loading <=> InFlight("token") # {}

-----------------------------------------------------------------------------
(* C10 *)

OnUserAdmin == phase = "mounted" /\ PageAt(path) = "user_admin"

C10_HasAdminRole(u) == Range(u.roles) \cap {"admin", "users:admin"} # {}

\* A request to GET /auth/users is issued only for a loaded session whose
\* user holds one of the two roles.
C10_FetchOnlyForAdmins ==
    SameDocument /\ sent'["users"] # sent["users"] =>
        loaded' /\ user' # NoUser /\ C10_HasAdminRole(user')

\* C10 as claimed: GET /auth/users is issued only for a loaded session whose
\* user holds an admin role, and once the session is loaded everybody else,
\* a visitor without a user included, sees "Not authorized".
C10_Original ==
    /\ [](OnUserAdmin /\ loaded /\ (user = NoUser \/ ~C10_HasAdminRole(user))
            => adminView = "NotAuthorized")
    /\ [][C10_FetchOnlyForAdmins]_vars

\* C10 as amended: GET /auth/users is issued only for a loaded session whose
\* user holds an admin role; a held user without such a role sees "Not
\* authorized"; with no user held the shell renders no page content at all.
C10_AdminGate ==
    /\ [](OnUserAdmin /\ loaded =>
            adminView = IF user = NoUser THEN "unmounted"
                        ELSE IF C10_HasAdminRole(user) THEN "Admin"
                        ELSE "NotAuthorized")
    /\ [][C10_FetchOnlyForAdmins]_vars

\* A viewer is on the user administration page: refused, nothing requested.
C10_Witness ==
    /\ OnUserAdmin
    /\ loaded
    /\ user # NoUser
    /\ user.roles = <<"viewer">>
    /\ adminView = "NotAuthorized"
    /\ sent["users"] = 0

-----------------------------------------------------------------------------
(* C11 *)

\* The mounted users table has just taken a successful user-list response.
C11_TookList ==
    /\ last.op = "SettleUsers"
    /\ last.req.inst = tableInst
    /\ last.resp.net = "ok" /\ Ok(last.resp.status)
    /\ last.resp.parse /\ last.resp.hasUsers

C11_RowsOf(u) == { i \in DOMAIN contents.rows : contents.rows[i].user_id = u.user_id }

\* C11: for an authorized user and a successful user-list response the table
\* has exactly one row per user of the response, and its rows are in
\* ascending order of user name, whatever order the response lists them in.
C11_RowsSorted ==
    C11_TookList =>
        /\ contents.kind = "table"
        /\ Len(contents.rows) = Len(last.resp.users)
        /\ \A i \in DOMAIN last.resp.users :
              /\ Cardinality(C11_RowsOf(last.resp.users[i])) = 1
              /\ \A k \in C11_RowsOf(last.resp.users[i]) :
                    contents.rows[k].user_name = last.resp.users[i].user_name
        /\ \A i, j \in DOMAIN contents.rows :
              i < j => localeCompare(contents.rows[i].user_name,
                                     contents.rows[j].user_name) < 0
        /\ adminView = "Admin" /\ C10_HasAdminRole(user)

\* Three users listed in descending order of name have been put in a table.
C11_Witness ==
    /\ C11_TookList
    /\ Len(last.resp.users) = 3
    /\ \A i, j \in 1..3 :
          i < j => localeCompare(last.resp.users[i].user_name,
                                 last.resp.users[j].user_name) > 0
    /\ contents.kind = "table"
    /\ contents.rows[1].user_name = <<"a">>
    /\ contents.rows[3].user_name = <<"b">>

-----------------------------------------------------------------------------
(* C12 *)

\* The mounted Home page has just run the reactions to a settled /whoami.
WhoamiSettled ==
    /\ last.op = "SettleWhoami"
    /\ homeInst # 0
    /\ last.req.inst = homeInst

\* C12: once /whoami has settled, the section shows the response's raw text
\* only for a success response; for a non-success response and for a network
\* failure it ends up showing a red failure notice.
C12_NoticeUnlessSuccess ==
    WhoamiSettled =>
        /\ whoami.kind = "pre" => last.resp.net = "ok" /\ Ok(last.resp.status)
        /\ last.resp.net = "ok" /\ ~Ok(last.resp.status) => whoami.kind = "red"
        /\ last.resp.net = "fail" => whoami.kind = "red"

-----------------------------------------------------------------------------
(* C13 *)

\* C13: once the Home page's /whoami request has settled, with whatever
\* outcome, the page shows one role badge per role of the loaded user the
\* request was issued for.
C13_BadgesWhateverOutcome ==
    WhoamiSettled /\ loaded /\ user # NoUser =>
        /\ roleBadges.kind \in {"badges", "(None)"}
        /\ roleBadges.roles = last.req.ctx.roles

-----------------------------------------------------------------------------
(* C14 *)

UpdateUserShown == phase = "mounted" /\ updInst # 0

\* What the mounted update-user page displays.
UpdateUserView == UpdateUserMain(userId, isLoading, updUser)

\* C14: with a target id, "Could not find the specified user." is displayed
\* only after a request for the record has completed with a non-success
\* response or a failure, and from mount until the request settles the loading
\* message is displayed; with no id "No user specified." is shown and no
\* request is issued.
C14_NotFoundOnlyAfterRequest ==
    /\ [](UpdateUserShown /\ userId # "" =>
            /\ UpdateUserView = "Could not find the specified user." => updSettled
            /\ ~updSettled => UpdateUserView = "Loading user...")
    /\ [](UpdateUserShown /\ userId = "" =>
            /\ UpdateUserView = "No user specified."
            /\ sent["user"] = 0)
    /\ [][StepIs("SettleUser") /\ UpdateUserShown' /\ last'.req.inst = updInst'
            /\ UpdateUserView' = "Could not find the specified user."
          => ~(last'.resp.net = "ok" /\ Ok(last'.resp.status) /\ last'.resp.parse)]_vars

-----------------------------------------------------------------------------
(* C15 *)

\* The modals this step opened.
NewModals == SubSeq(modals', Len(modals) + 1, Len(modals'))

C15_Success(resp) == resp.net = "ok" /\ Ok(resp.status)

\* C15: while the My Account page is mounted, a submitted password change
\* opens exactly one modal, when its PATCH request settles: "Success!" if and
\* only if the response is a success response, otherwise "Error!" with the
\* server's detail (non-success response) or the error's text (network
\* failure); no other step opens a modal.
C15_OneModalPerChange ==
    IF StepIs("SettlePatch") /\ acctInst # 0
    THEN /\ Len(NewModals) = 1
         /\ NewModals[1].req = last'.req.id
         /\ \A i \in DOMAIN modals : modals[i].req # last'.req.id
         /\ NewModals[1].title = "Success!" <=> C15_Success(last'.resp)
         /\ ~C15_Success(last'.resp) => NewModals[1].title = "Error!"
         /\ last'.resp.net = "ok" /\ ~Ok(last'.resp.status) /\ last'.resp.parse
              => NewModals[1].text = last'.resp.detail
         /\ last'.resp.net = "fail" => NewModals[1].text = FetchError
    ELSE SameDocument => modals' = modals

C15_ModalPerChange == [][C15_OneModalPerChange]_vars

-----------------------------------------------------------------------------
(* C16 *)

\* Every command of completed run number i reached the server.
ReachedServer(i) ==
    \A k \in DOMAIN runLog[i].results : runLog[i].results[k] # "unreachable"

\* The bootstrap script has been run twice in sequence against a reachable
\* server, with the same role and database names in both environment files.
C16_RanTwice ==
    /\ run = Idle
    /\ Len(runLog) = 2
    /\ \A i \in 1..2 : runLog[i].prog = "create_dtp" /\ ReachedServer(i)
    /\ runLog[1].env.user = runLog[2].env.user
    /\ runLog[1].env.db = runLog[2].env.db

\* C16: after two runs in sequence there is exactly one application role and
\* one application database, the role's password and the grant are those of
\* the second run's environment file, and both runs exit with status 0,
\* although CREATE USER and CREATE DATABASE of the second run fail.
C16_TwoRunsIdempotent ==
    C16_RanTwice =>
        LET env == runLog[2].env
        IN  /\ Cardinality({ r \in pg.roles : r.name = env.user }) = 1
            /\ Cardinality({ d \in pg.dbs : d.name = env.db }) = 1
            /\ Role(env.user, env.password) \in pg.roles
            /\ Grant(env.db, env.user) \in pg.grants
            /\ runLog[1].exit = 0 /\ runLog[2].exit = 0
            /\ Len(runLog[1].issued) = 4 /\ Len(runLog[2].issued) = 4
            /\ runLog[2].results[1] = "error" /\ runLog[2].results[3] = "error"

\* Two runs on a fresh server, the second with a rotated password.
C16_Witness ==
    /\ C16_RanTwice
    /\ runLog[1].results = <<"ok", "ok", "ok", "ok">>
    /\ runLog[1].env.password = "p1"
    /\ runLog[2].env.password = "p2"
    /\ pg = Server({Role(runLog[2].env.user, "p2")},
                   {Database("dtp", runLog[2].env.user)},
                   {Grant("dtp", runLog[2].env.user)})

-----------------------------------------------------------------------------
(* C17 *)

\* C17: when the script has completed against a reachable server, the
\* application database exists and is owned by the role named in the
\* environment file of that run, whatever the server held before.
C17_OwnedAfterRun ==
    run = Idle /\ Len(runLog) >= 1 /\ ReachedServer(Len(runLog)) =>
        LET env == runLog[Len(runLog)].env
        IN  Database(env.db, env.user) \in pg.dbs

-----------------------------------------------------------------------------
(* C18 *)

\* The four mappings: HTTPS 443 to local port 80, HTTPS 5000 and 5001 to the
\* same local port, raw TCP 1883 to localhost:1883.
FourMappings ==
    { Rule("https", P443, P80), Rule("https", P5000, P5000),
      Rule("https", P5001, P5001), Rule("tcp", P1883, TcpLocalhost1883) }

\* The serve rules the commands of a completed run asked to register.
Registrations(entry) ==
    { Rule(entry.issued[k].a, entry.issued[k].b, entry.issued[k].c) :
        k \in { j \in DOMAIN entry.issued :
                  entry.issued[j].tool = "tailscale" /\ entry.issued[j].op = "serve" } }

\* C18: a run of tailscale-up issues serve-rule registrations for exactly the
\* four mappings, one command each, and no other command.
C18_FourRegistrations ==
    \A i \in DOMAIN runLog :
        runLog[i].prog = "tailscale-up" =>
            /\ Registrations(runLog[i]) = FourMappings
            /\ Len(runLog[i].issued) = 4
            /\ \A k \in DOMAIN runLog[i].issued :
                  runLog[i].issued[k].tool = "tailscale" /\ runLog[i].issued[k].op = "serve"

\* tailscale-up has completed on a host that had an ad-hoc rule for port
\* 8080, which it leaves in place next to the four it registers.
C18_Witness ==
    /\ run = Idle
    /\ Len(runLog) = 1
    /\ runLog[1].prog = "tailscale-up"
    /\ Len(runLog[1].issued) = 4
    /\ Rule("https", P8080, P8080) \in serve
    /\ FourMappings \subseteq serve

-----------------------------------------------------------------------------
(* C19 *)

\* The completed run that ended last.
LastRun == runLog[Len(runLog)]

JustCompleted(progs) == run = Idle /\ Len(runLog) >= 1 /\ LastRun.prog \in progs

\* The last four commands of a run are those of tailscale-up, in its order.
EndsWithTailscaleUp(issued) ==
    /\ Len(issued) >= 4
    /\ SubSeq(issued, Len(issued) - 3, Len(issued)) =
         << TailscaleServe("https", P443, P80), TailscaleServe("https", P5000, P5000),
            TailscaleServe("https", P5001, P5001),
            TailscaleServe("tcp", P1883, TcpLocalhost1883) >>

\* C19: docker-up runs reset serve rules, compose up (detached, with .env),
\* tailscale-up, in this order; docker-restart runs stop that service, reset
\* serve rules, start that service, tailscale-up; and when either recipe has
\* completed the serve rules are exactly those tailscale-up registers,
\* whatever rules existed before.
C19_StackRecipes ==
    /\ JustCompleted({"docker-up"}) =>
          /\ Len(LastRun.issued) = 6
          /\ LastRun.issued[1] = TailscaleReset
          /\ LastRun.issued[2] = ComposeUp(AllServices)
          /\ EndsWithTailscaleUp(LastRun.issued)
          /\ serve = FourMappings
    /\ JustCompleted({"docker-restart"}) =>
          /\ Len(LastRun.issued) = 7
          /\ LastRun.issued[1] = ComposeDown(LastRun.arg)
          /\ LastRun.issued[2] = TailscaleReset
          /\ LastRun.issued[3] = ComposeUp(LastRun.arg)
          /\ EndsWithTailscaleUp(LastRun.issued)
          /\ serve = FourMappings

\* docker-restart traefik has completed on a host that had ad-hoc rules, a
\* compose command of it having failed.
C19_Witness ==
    /\ JustCompleted({"docker-restart"})
    /\ Len(runLog) = 1
    /\ LastRun.arg = Traefik
    /\ LastRun.before = AdHocRules
    /\ "error" \in Range(LastRun.results)
    /\ serve = FourMappings

-----------------------------------------------------------------------------
(* C20 *)

\* A published port is bound to the wildcard address.
WildcardBound(port) == StartsWith(port, <<"0", ".", "0", ".", "0", ".", "0", ":">>)

\* The published ports of a container, one text each.
PublishedPorts(c) ==
    IF c.Ports = <<>> THEN <<>> ELSE Split(c.Ports, CommaSpace, <<>>)

EntriesOf(c) == { e \in LastRun.out : e.name = c.Name }

Running == { c \in services : c.running }

\* C20 as claimed: the output of docker-ports has an entry for a service if
\* and only if one of its published ports is bound to 0.0.0.0, and an entry
\* lists only wildcard-bound ports; a service published on loopback only has
\* no entry.
C20_Original ==
    JustCompleted({"docker-ports"}) =>
        \A c \in Running :
            /\ EntriesOf(c) # {} <=>
                  \E k \in DOMAIN PublishedPorts(c) : WildcardBound(PublishedPorts(c)[k])
            /\ \A e \in EntriesOf(c) : \A k \in DOMAIN e.ports : WildcardBound(e.ports[k])

\* C20 as amended: the output of docker-ports has exactly one entry for every
\* running service and none for any other; the entry lists exactly the
\* service's ports bound to 0.0.0.0, in their order, so that the entry of a
\* service published on loopback only, or not at all, is the empty list.
C20_EntryPerService ==
    JustCompleted({"docker-ports"}) =>
        /\ \A c \in Running :
              EntriesOf(c) =
                { [name |-> c.Name, ports |-> SelectSeq(PublishedPorts(c), WildcardBound)] }
        /\ \A e \in LastRun.out : \E c \in Running : e.name = c.Name

\* docker-ports has listed a service published on loopback only with an
\* empty list, next to a service with a wildcard-bound port.
C20_Witness ==
    /\ JustCompleted({"docker-ports"})
    /\ Container(Postgres, TRUE, Loopback81) \in services
    /\ [name |-> Postgres, ports |-> <<>>] \in LastRun.out
    /\ [name |-> Traefik, ports |-> <<Wildcard80>>] \in LastRun.out

-----------------------------------------------------------------------------
(* C21 *)

\* A completed run of a serve or unserve recipe / one that was given no port
\* and whose prompt yielded nothing / one that showed the prompt.
PortRun(e) == e.prog \in PortRecipes
CancelledRun(e) == PortRun(e) /\ e.arg = <<>> /\ e.port = <<>>
Prompted(e) == \E k \in DOMAIN e.issued : e.issued[k].tool = "gum"

\* C21: a run of tailscale-serve, tailscale-unserve or an HTTPS variant with
\* no port argument whose prompt yields an empty value prints `Cancelled.`,
\* exits with code 1 and issues no tailscale command, so that the serve rules
\* are at its exit what they were at its start; a run given a port shows no
\* prompt.
C21_EmptyPortCancels ==
    /\ [](\A i \in DOMAIN runLog :
            /\ CancelledRun(runLog[i]) =>
                  /\ runLog[i].echoed = <<Cancelled>>
                  /\ runLog[i].exit = 1
                  /\ \A k \in DOMAIN runLog[i].issued :
                        runLog[i].issued[k].tool # "tailscale"
            /\ PortRun(runLog[i]) /\ runLog[i].arg # <<>> => ~Prompted(runLog[i]))
    /\ [][run' = Idle /\ CancelledRun(run) => serve' = run.before]_vars

\* A recipe was cancelled at the prompt while serve rules existed, and a
\* later run given a port has gone on to its tailscale command.
C21_Witness ==
    /\ Len(runLog) = 2
    /\ CancelledRun(runLog[1]) /\ Prompted(runLog[1])
    /\ runLog[1].before # {}
    /\ runLog[2].prog = "tailscale-unserve-https" /\ runLog[2].arg = P8080
    /\ \E k \in DOMAIN runLog[2].issued : runLog[2].issued[k].tool = "tailscale"

-----------------------------------------------------------------------------
(* C22 *)

\* C22: when ~/.local/bin is not on PATH as setup.sh starts, the PATH step
\* appends the guard to ~/.bashrc and the script exits non-zero having run no
\* later step; when it is on PATH the step leaves ~/.bashrc alone and the
\* script goes on to the next step.
C22_PathStepStops ==
    /\ [](run.prog = "setup" /\ ~vm.onPath =>
            \A k \in DOMAIN run.issued : run.issued[k].op = "path")
    /\ [][AtStep("path") /\ run' # run =>
            IF ~vm.onPath
            THEN /\ vm'.bashrc = Append(vm.bashrc, PathGuard)
                 /\ run'.pc > Len(run'.script)
                 /\ run'.status # 0
            ELSE /\ vm'.bashrc = vm.bashrc
                 /\ run'.pc <= Len(run'.script)
                 /\ run'.script[run'.pc].op = "pureline"]_vars
    /\ [][run.prog = "setup" /\ run' = Idle /\ ~vm.onPath =>
            /\ run.status # 0
            /\ Len(run.issued) = 1]_vars

\* A first run stopped at the PATH step; after a new session a second run
\* went through every step without touching the guard again.
C22_Witness ==
    /\ Len(runLog) = 2
    /\ runLog[1].exit = 1 /\ Len(runLog[1].issued) = 1
    /\ runLog[2].exit = 0 /\ Len(runLog[2].issued) = Len(setup_sh)
    /\ vm.bashrc = <<DistroBashrc, PathGuard, PurelineBlock>>

-----------------------------------------------------------------------------
(* C23 *)

Copies(block) == Cardinality({ k \in DOMAIN vm.bashrc : vm.bashrc[k] = block })

\* C23: however often setup.sh is re-run, sessions without ~/.local/bin on
\* PATH included, ~/.bashrc holds at most one copy of the PATH guard and at
\* most one copy of the pureline block.
C23_AtMostOneCopy ==
    /\ Copies(PathGuard) <= 1
    /\ Copies(PurelineBlock) <= 1

-----------------------------------------------------------------------------
(* C24 *)

\* C24: commonString(a, b) is no-value when either argument is absent;
\* otherwise it is true exactly when some element of a occurs in b and false
\* if none does, an empty list included; and commonString(b, a) gives the
\* same result.
C24_CommonString ==
    call.fn = "commonString" =>
        LET a == call.args[1]
            b == call.args[2]
        IN  /\ (~a.def \/ ~b.def) => call.result = "undefined"
            /\ (a.def /\ b.def) =>
                  /\ call.result \in {"true", "false"}
                  /\ call.result = "true" <=> Range(a.arr) \cap Range(b.arr) # {}
                  /\ (a.arr = <<>> \/ b.arr = <<>>) => call.result = "false"
            /\ commonString(b, a) = call.result

\* commonString(["a","b"], ["x","b"]): the common element is the second of
\* both lists.
C24_Witness ==
    /\ call.fn = "commonString"
    /\ call.args = <<Arr(<<"a", "b">>), Arr(<<"x", "b">>)>>
    /\ call.result = "true"

-----------------------------------------------------------------------------
(* C25 *)

\* The value of header name in a set of headers, <<>> if it has none.
ValueOf(headers, name) ==
    IF Has(headers, name)
    THEN (CHOOSE h \in headers : h.name = Lower(name)).value
    ELSE <<>>

\* C25: authFetch sets mode cors and accept application/json only where the
\* caller left them unset, and hands on a caller's mode, accept header,
\* other init fields and other headers as given; it sets Authorization to
\* the bearer credential when a token is held in session storage, and adds
\* no Authorization header when none is held.
C25_AuthFetchFrame ==
    call.fn = "authFetch" =>
        LET init  == call.args[1]
            tok   == call.args[2]
            given == Headers(init.headers)
            out   == call.result
        IN  /\ out.mode = IF init.mode = "unset" THEN "cors" ELSE init.mode
            /\ ValueOf(out.headers, "accept") =
                  IF Has(given, "accept") THEN ValueOf(given, "accept")
                  ELSE <<"application/json">>
            /\ out.method = init.method
            /\ \A h \in given : h.name \notin {"accept", "authorization"} => h \in out.headers
            /\ \A h \in out.headers :
                  h.name \notin {"accept", "authorization"} => h \in given
            /\ \A h, g \in out.headers : h.name = g.name => h = g
            /\ tok.has => ValueOf(out.headers, "Authorization") = <<"Bearer">> \o tok.val
            /\ ~tok.has =>
                  ValueOf(out.headers, "Authorization") = ValueOf(given, "Authorization")

\* A token is held and the caller passed its own mode, accept header,
\* Authorization header and another header.
C25_Witness ==
    /\ call.fn = "authFetch"
    /\ call.args[2].has
    /\ call.args[1].mode = "no-cors"
    /\ call.args[1].method = "POST"
    /\ Cardinality(call.args[1].headers) = 3
    /\ Header("accept", <<"text/html">>) \in call.result.headers
    /\ Header("authorization", <<"Bearer", "t">>) \in call.result.headers

-----------------------------------------------------------------------------
(* C26 *)

\* C26: whatever a request of the front end settled with, a non-success
\* response and a network failure included, the promise chain of its call
\* site ends fulfilled: no rejection is left unhandled.
C26_NoUnhandledRejection ==
    (last.req # NoRequest /\ last.resp # NoResponse) =>
        ChainEnd(Reactions(variant, last.req.kind),
                 IF last.resp.net = "fail" THEN "rejected" ELSE "fulfilled",
                 last.resp.net # "fail" /\ ThenThrows(variant, last.req.kind, last.resp))
            = "fulfilled"

-----------------------------------------------------------------------------
(* C27 *)

\* What a settled identity check and a settled user-record request stand
\* for: the parsed body of a success response, and nothing otherwise.
C27_MeOutcome(resp, id) ==
    IF resp.net = "ok" /\ Ok(resp.status) /\ resp.parse THEN UserObj(id, resp.acct)
    ELSE NoUser
C27_UserOutcome(resp) ==
    IF resp.net = "ok" /\ Ok(resp.status) /\ resp.parse THEN Fetched(userId) ELSE NoRecord

-----------------------------------------------------------------------------
(* C28 *)

\* The statements of the commands a run has issued, in order.
Statements(issued) == [k \in DOMAIN issued |-> issued[k].op]

FourStatements ==
    <<"CREATE USER", "ALTER USER", "CREATE DATABASE", "GRANT ALL ON DATABASE">>

\* C28: a run of the bootstrap script issues CREATE USER, ALTER USER,
\* CREATE DATABASE and GRANT ALL in that order, whatever the result of each:
\* a run in progress has issued a prefix of the four, a completed run all
\* four.
C28_FourCommandsInOrder ==
    /\ run.prog = "create_dtp" =>
          /\ Len(run.issued) <= Len(FourStatements)
          /\ Statements(run.issued) = SubSeq(FourStatements, 1, Len(run.issued))
          /\ run.pc = Len(run.issued) + 1
    /\ \A i \in DOMAIN runLog :
          runLog[i].prog = "create_dtp" => Statements(runLog[i].issued) = FourStatements

\* A completed run in which both CREATE statements failed and ALTER USER and
\* GRANT were applied, and one in which no command reached the server.
C28_Witness ==
    /\ Len(runLog) = 2
    /\ runLog[1].results = <<"unreachable", "unreachable", "unreachable", "unreachable">>
    /\ runLog[2].results = <<"error", "ok", "error", "ok">>

-----------------------------------------------------------------------------
(* C29 *)

\* application/x-www-form-urlencoded decoding of a name or value: `+` is a
\* space and %XX the character with that code.
RECURSIVE C29_Unescape(_)
C29_Unescape(t) ==
    IF t = <<>> THEN <<>>
    ELSE IF Head(t) = "+" THEN <<" ">> \o C29_Unescape(Tail(t))
    ELSE IF Head(t) = "%" /\ Len(t) >= 3 /\ <<t[2], t[3]>> \in
                 {<<"2", "6">>, <<"3", "D">>, <<"2", "B">>, <<"2", "5">>, <<"2", "0">>}
    THEN << CASE <<t[2], t[3]>> = <<"2", "6">> -> "&"
              [] <<t[2], t[3]>> = <<"3", "D">> -> "="
              [] <<t[2], t[3]>> = <<"2", "B">> -> "+"
              [] <<t[2], t[3]>> = <<"2", "5">> -> "%"
              [] OTHER -> " " >> \o C29_Unescape(SubSeq(t, 4, Len(t)))
    ELSE <<Head(t)>> \o C29_Unescape(Tail(t))

\* The fields of a body: its pieces between `&`, each cut at its first `=`.
C29_Field(piece) ==
    LET eqs == { k \in DOMAIN piece : piece[k] = "=" }
        at  == IF eqs = {} THEN Len(piece) + 1
               ELSE CHOOSE k \in eqs : \A j \in eqs : k <= j
    IN  [name |-> C29_Unescape(SubSeq(piece, 1, at - 1)),
         value |-> C29_Unescape(SubSeq(piece, at + 1, Len(piece)))]
C29_Decode(body) ==
    LET pieces == SelectSeq(Split(body, <<"&">>, <<>>), LAMBDA x : x # <<>>)
    IN  [k \in DOMAIN pieces |-> C29_Field(pieces[k])]

\* C29: the body of the token request doLogin sends for a non-empty
\* username and password decodes, as application/x-www-form-urlencoded, to
\* exactly grant_type=password, username and password with the values as
\* entered.
C29_BodyDecodesAsEntered ==
    [][StepIs("Submit") =>
          \A r \in net' \ net :
              C29_Decode(r.body) =
                  << [name |-> <<"g", "r", "a", "n", "t", "_", "t", "y", "p", "e">>, value |-> <<"p", "a", "s", "s", "w", "o", "r", "d">>],
                     [name |-> <<"u", "s", "e", "r", "n", "a", "m", "e">>, value |-> last'.args[1]],
                     [name |-> <<"p", "a", "s", "s", "w", "o", "r", "d">>, value |-> last'.args[2]] >>]_vars

-----------------------------------------------------------------------------
(* C30 *)

\* The document was reached by following an assignment of the shell's effect.
ByShell(target) == reachedBy = "effect" /\ path = target

\* C30: the shell's redirects never loop.  The effect sends the tab to /login
\* only while no user is held and to / only while a user is held; on a document
\* reached that way, no step that leaves the identity as it was when the
\* redirect was issued (no user held on /login, a user held on /) makes the
\* effect assign window.location.href again, so that a chain of shell redirects
\* across page loads has length at most one.
C30_ShellRedirectsDoNotLoop ==
    [][ /\ ByShell(LoginPath) /\ SameDocument /\ user' = NoUser
            => NewNavsBy("effect") = <<>>
        /\ ByShell(HomePath) /\ SameDocument /\ user' # NoUser
            => NewNavsBy("effect") = <<>> ]_vars

\* A document reached by a shell redirect has finished its identity check with
\* the outcome the redirect was issued under, and has assigned nothing.
C30_Witness ==
    /\ loaded
    /\ navs = <<>>
    /\ \/ ByShell(LoginPath) /\ user = NoUser
       \/ ByShell(HomePath) /\ user # NoUser

====
